---- MODULE Spec2Model ----
(***************************************************************************)
(* Move classification / accuracy engine (scripts/analyze_game_on_demand)  *)
(* and opening identification (scripts/analyze) of sschess.                *)
(*                                                                         *)
(* Conventions                                                             *)
(*  - centipawn values are integers, as in the code;                       *)
(*  - an accuracy is held in tenths of a percent: 75.0 is 750, 100.0 is    *)
(*    1000 (the code rounds to one decimal);                               *)
(*  - a weight is held in hundredths: 0.95 is 95;                          *)
(*  - a Python dict is a record, a missing key is a missing field;         *)
(*  - a Python str whose characters the code inspects is a sequence of     *)
(*    one-character strings.                                               *)
(***************************************************************************)
EXTENDS Integers, Sequences, FiniteSets, TLC

VARIABLES
    pc,                    \* position of the running call
    game,                  \* what chess.pgn.read_game made of the pgn text
    board_turn,            \* board.turn of the working board
    engine,                \* the engine session: "none", "open", "closed"
    move_num,              \* analyze_with_stockfish: move_num
    analysis,              \* analyze_with_stockfish: analysis
    move_classifications,  \* analyze_with_stockfish: move_classifications
    failed_at,             \* ply whose oracle request failed, 0 when none did
    result,                \* the value analyze_with_stockfish returned
    report,                \* outcome of generate_lichess_style_report
    arg,                   \* argument of the pure function under call
    ret,                   \* its return value
    pgn,                   \* get_opening: the header part of game["pgn"]
    moves,                 \* get_opening: moves
    tokens_read,           \* get_opening: tokens of moves_text consumed
    opening,               \* the value get_opening returned
    pattern_counts,        \* TacticalDetector: self.pattern_counts
    pattern_positions,     \* TacticalDetector: self.pattern_positions
    cached_analysis,       \* OnDemandAnalyzer: self.cached_analysis
    frame                  \* analyze_game_tactics run by steps: its locals

vars == <<pc, game, board_turn, engine, move_num, analysis,
          move_classifications, failed_at, result, report,
          arg, ret, pgn, moves, tokens_read, opening,
          pattern_counts, pattern_positions, cached_analysis, frame>>

analyzer_vars == <<game, board_turn, engine, move_num, analysis,
                   move_classifications, failed_at, result, report>>
pure_vars == <<arg, ret>>
opening_vars == <<pgn, moves, tokens_read, opening>>
instance_vars == <<pattern_counts, pattern_positions, cached_analysis>>

\* A local or a return value that has not been assigned yet.
NoValue == [unset |-> TRUE]

\* The dict {}.
EmptyDict == [k \in {} |-> k]

(***************************************************************************)
(* Bounds of the model.                                                    *)
(***************************************************************************)
MaxPlies == 3      \* longest game replayed
MaxLoss == 350     \* |eval_loss| handed to _classify_move alone
MaxList == 4       \* longest classification list handed to _calculate_accuracy
MaxMate == 12      \* longest mate distance handed to _score_to_cp
MaxCp == 40        \* largest |centipawn| score handed to _score_to_cp alone
MaxTokens == 6     \* tokens of moves_text read by get_opening

Abs(x) == IF x < 0 THEN -x ELSE x

RECURSIVE SumSeq(_)
SumSeq(s) == IF s = <<>> THEN 0 ELSE Head(s) + SumSeq(Tail(s))

Count(s, S) == Cardinality({i \in DOMAIN s : s[i] \in S})

(***************************************************************************)
(* OnDemandAnalyzer._score_to_cp                                           *)
(*                                                                         *)
(* A score object answers is_mate(), mate() and, for a centipawn score,    *)
(* either score() or relative.score(); any accessor that raises takes the  *)
(* bare except branch.                                                     *)
(***************************************************************************)
MateScore(n) ==
    [is_mate |-> TRUE, mate |-> n, cp |-> 0,
     has_score |-> TRUE, has_relative |-> FALSE, raises |-> FALSE]

CpScore(c, hs, hr) ==
    [is_mate |-> FALSE, mate |-> 0, cp |-> c,
     has_score |-> hs, has_relative |-> hr, raises |-> FALSE]

Raising(s) == [s EXCEPT !.raises = TRUE]

\* Variant: the losing branch adds the (negative) distance instead of
\* subtracting it.
_score_to_cp_mirror(score) ==
    IF score.raises THEN 0
    ELSE IF score.is_mate
         THEN IF score.mate > 0
              THEN 10000 - score.mate * 100
              ELSE -10000 + score.mate * 100
         ELSE IF score.has_score THEN score.cp
              ELSE IF score.has_relative THEN score.cp
              ELSE 0

_score_to_cp(score) ==
    IF score.raises THEN 0
    ELSE IF score.is_mate
         THEN IF score.mate > 0
              THEN 10000 - score.mate * 100
              ELSE -10000 - score.mate * 100
         ELSE IF score.has_score THEN score.cp
              ELSE IF score.has_relative THEN score.cp
              ELSE 0

(***************************************************************************)
(* OnDemandAnalyzer._classify_move                                         *)
(***************************************************************************)
\* Variant: every comparison strict.
_classify_move_strict(eval_loss) ==
    LET loss == Abs(eval_loss) IN
    IF loss > 300 THEN "blunder"
    ELSE IF loss > 100 THEN "mistake"
    ELSE IF loss > 50 THEN "inaccuracy"
    ELSE IF loss < 10 THEN "best"
    ELSE IF loss < 25 THEN "excellent"
    ELSE "good"

\* Variant: a seventh label, which no counter of the result counts.
_classify_move_dubious(eval_loss) ==
    LET loss == Abs(eval_loss) IN
    IF loss >= 300 THEN "blunder"
    ELSE IF loss >= 100 THEN "mistake"
    ELSE IF loss >= 75 THEN "dubious"
    ELSE IF loss >= 50 THEN "inaccuracy"
    ELSE IF loss <= 10 THEN "best"
    ELSE IF loss <= 25 THEN "excellent"
    ELSE "good"

_classify_move(eval_loss) ==
    LET loss == Abs(eval_loss) IN
    IF loss >= 300 THEN "blunder"
    ELSE IF loss >= 100 THEN "mistake"
    ELSE IF loss >= 50 THEN "inaccuracy"
    ELSE IF loss <= 10 THEN "best"
    ELSE IF loss <= 25 THEN "excellent"
    ELSE "good"

Classifications ==
    {"best", "excellent", "good", "inaccuracy", "mistake", "blunder"}

(***************************************************************************)
(* OnDemandAnalyzer._calculate_accuracy                                    *)
(*                                                                         *)
(* weights, in hundredths; weights.get(c, 0.5) for any other string.       *)
(* round(x, 1) of the float x is the nearest tenth; when x lies exactly    *)
(* half way between two tenths the float error of the sum and the          *)
(* division decides, so both neighbours are possible outcomes.             *)
(***************************************************************************)
\* Variant: an inaccuracy weighted like a good move.
weights_flat(c) ==
    CASE c = "best" -> 100
      [] c = "excellent" -> 95
      [] c = "good" -> 90
      [] c = "inaccuracy" -> 90
      [] c = "mistake" -> 30
      [] c = "blunder" -> 0
      [] OTHER -> 50

weights(c) ==
    CASE c = "best" -> 100
      [] c = "excellent" -> 95
      [] c = "good" -> 90
      [] c = "inaccuracy" -> 60
      [] c = "mistake" -> 30
      [] c = "blunder" -> 0
      [] OTHER -> 50

round1(num, den) ==
    LET q == (10 * num) \div den
        r == (10 * num) % den
    IN  IF 2 * r < den THEN {q}
        ELSE IF 2 * r > den THEN {q + 1}
        ELSE {q, q + 1}

_calculate_accuracy(classifications) ==
    IF classifications = <<>> THEN {0}
    ELSE LET total_score ==
                 SumSeq([i \in DOMAIN classifications |->
                             weights(classifications[i])])
         IN  round1(total_score, Len(classifications))

(***************************************************************************)
(* OnDemandAnalyzer._simplified_analysis                                   *)
(***************************************************************************)
SimplifiedNote == "Simplified analysis - Stockfish not available"

\* Variant: the estimate without its note.
_simplified_analysis_bare(g) ==
    [analysis |-> <<>>,
     accuracy |-> 750,
     total_moves |-> g.n_moves,
     blunders |-> 0,
     mistakes |-> 0,
     inaccuracies |-> 0,
     good_moves |-> g.n_moves,
     engine_depth |-> 0]

_simplified_analysis(g) ==
    [analysis |-> <<>>,
     accuracy |-> 750,
     total_moves |-> g.n_moves,
     blunders |-> 0,
     mistakes |-> 0,
     inaccuracies |-> 0,
     good_moves |-> g.n_moves,
     engine_depth |-> 0,
     note |-> SimplifiedNote]

(***************************************************************************)
(* OnDemandAnalyzer.analyze_with_stockfish and its caller's report         *)
(***************************************************************************)
DefaultDepth == 20

\* engine_paths: the four locations tried in order.
engine_paths == 1..4

Other(turn) == IF turn = "white" THEN "black" ELSE "white"

\* What read_game can make of a pgn text: no game at all, or a game with its
\* mainline moves (numbered 1..n_moves) and the side to move of its starting
\* position (a FEN header can make it Black).
Games ==
    {[valid |-> FALSE, n_moves |-> 0, turn0 |-> "white"]}
    \cup [valid : {TRUE}, n_moves : 0..MaxPlies, turn0 : {"white", "black"}]

\* The scores the oracle answers with.
OracleScores ==
    {CpScore(0, TRUE, FALSE), CpScore(30, FALSE, TRUE),
     CpScore(-90, TRUE, FALSE), MateScore(2)}

\* Variant: the loss clamped to its magnitude.
eval_loss_of_abs(n, eval_before, eval_after) ==
    Abs(eval_before - eval_after)

\* Variant: the two parities exchanged.
eval_loss_of_swapped(n, eval_before, eval_after) ==
    IF n % 2 = 1 THEN eval_after - eval_before
    ELSE eval_before - eval_after

\* lines 146-150: the loss of ply n, by the parity of move_num.
eval_loss_of(n, eval_before, eval_after) ==
    IF n % 2 = 1 THEN eval_before - eval_after
    ELSE eval_after - eval_before

IdleAnalyzer ==
    /\ game = NoValue
    /\ board_turn = "white"
    /\ engine = "none"
    /\ move_num = 0
    /\ analysis = <<>>
    /\ move_classifications = <<>>
    /\ failed_at = 0
    /\ result = NoValue
    /\ report = "none"

IdlePure == arg = NoValue /\ ret = NoValue

\* The objects that live across calls are as their constructors leave them
\* (no analysis cache file on disk), and no call of analyze_game_tactics is
\* being run by steps.
IdleInstances ==
    /\ pattern_counts = EmptyDict
    /\ pattern_positions = EmptyDict
    /\ cached_analysis = EmptyDict
    /\ frame = NoValue

IdleOpening ==
    /\ pgn = NoValue
    /\ moves = <<>>
    /\ tokens_read = 0
    /\ opening = NoValue

Init ==
    /\ pc = "start"
    /\ IdleAnalyzer
    /\ IdleInstances
    /\ IdlePure
    /\ IdleOpening

\* lines 98-106: parse the pgn; no game gives the error value.
ReadGame ==
    /\ pc = "start"
    /\ \E g \in Games :
          /\ game' = g
          /\ IF ~g.valid
             THEN /\ result' = [error |-> "Invalid PGN"]
                  /\ pc' = "returned"
                  /\ UNCHANGED board_turn
             ELSE /\ board_turn' = g.turn0
                  /\ pc' = "open_engine"
                  /\ UNCHANGED result
    /\ analysis' = <<>>
    /\ move_classifications' = <<>>
    /\ UNCHANGED <<engine, move_num, failed_at, report>>
    /\ UNCHANGED <<pure_vars, opening_vars, instance_vars, frame>>

\* lines 108-130: the first path that opens is used; none gives the
\* simplified analysis.
OpenEngine ==
    /\ pc = "open_engine"
    /\ \E installed \in SUBSET engine_paths :
          IF installed = {}
          THEN /\ result' = _simplified_analysis(game)
               /\ pc' = "returned"
               /\ UNCHANGED <<engine, move_num>>
          ELSE /\ engine' = "open"
               /\ move_num' = 0
               /\ pc' = "loop"
               /\ UNCHANGED result
    /\ UNCHANGED <<game, board_turn, analysis, move_classifications,
                   failed_at, report>>
    /\ UNCHANGED <<pure_vars, opening_vars, instance_vars, frame>>

\* lines 132-172: one iteration of the replay loop, both oracle requests
\* answered.
AnalysePly ==
    /\ pc = "loop"
    /\ move_num < game.n_moves
    /\ \E info_before, info_after \in OracleScores :
          LET n == move_num + 1
              eval_before == _score_to_cp(info_before)
              eval_after == _score_to_cp(info_after)
              eval_loss == eval_loss_of(n, eval_before, eval_after)
              classification == _classify_move(eval_loss)
              move_data ==
                  [move |-> n,
                   move_number |-> (n + 1) \div 2,
                   eval_before |-> eval_before,
                   eval_after |-> eval_after,
                   eval_loss |-> eval_loss,
                   classification |-> classification,
                   depth |-> DefaultDepth]
          IN  /\ move_num' = n
              /\ board_turn' = Other(board_turn)
              /\ analysis' = Append(analysis, move_data)
              /\ move_classifications' =
                     Append(move_classifications, classification)
    /\ UNCHANGED <<pc, game, engine, failed_at, result, report>>
    /\ UNCHANGED <<pure_vars, opening_vars, instance_vars, frame>>

\* A handler that would keep the plies analysed before the failure.
OracleFails_partial ==
    /\ pc = "loop"
    /\ move_num < game.n_moves
    /\ move_num' = move_num + 1
    /\ failed_at' = move_num + 1
    /\ \E pushed \in BOOLEAN :
          board_turn' = IF pushed THEN Other(board_turn) ELSE board_turn
    /\ result' = [_simplified_analysis(game) EXCEPT !.analysis = analysis]
    /\ pc' = "returned"
    /\ UNCHANGED <<game, engine, analysis, move_classifications, report>>
    /\ UNCHANGED <<pure_vars, opening_vars, instance_vars, frame>>

\* lines 136/143 raising, lines 191-193: an oracle request of the iteration
\* fails (crash or timeout), before or after board.push; the handler returns
\* the simplified analysis.  engine.quit() is not reached.
OracleFails ==
    /\ pc = "loop"
    /\ move_num < game.n_moves
    /\ move_num' = move_num + 1
    /\ failed_at' = move_num + 1
    /\ \E pushed \in BOOLEAN :
          board_turn' = IF pushed THEN Other(board_turn) ELSE board_turn
    /\ result' = _simplified_analysis(game)
    /\ pc' = "returned"
    /\ UNCHANGED <<game, engine, analysis, move_classifications, report>>
    /\ UNCHANGED <<pure_vars, opening_vars, instance_vars, frame>>

\* lines 174-189: the loop is over; quit the engine and build the result.
Finish ==
    /\ pc = "loop"
    /\ move_num = game.n_moves
    /\ engine' = "closed"
    /\ \E accuracy \in _calculate_accuracy(move_classifications) :
          result' =
              [analysis |-> analysis,
               accuracy |-> accuracy,
               total_moves |-> Len(move_classifications),
               blunders |-> Count(move_classifications, {"blunder"}),
               mistakes |-> Count(move_classifications, {"mistake"}),
               inaccuracies |-> Count(move_classifications, {"inaccuracy"}),
               good_moves |->
                   Count(move_classifications, {"good", "excellent", "best"}),
               engine_depth |-> DefaultDepth]
    /\ pc' = "returned"
    /\ UNCHANGED <<game, board_turn, move_num, analysis,
                   move_classifications, failed_at, report>>
    /\ UNCHANGED <<pure_vars, opening_vars, instance_vars, frame>>

\* The keys generate_lichess_style_report subscripts (lines 310-321, 388-395).
ReportFields ==
    {"accuracy", "total_moves", "blunders", "mistakes", "inaccuracies"}

\* analyze_game_by_request, lines 440-450 with interactive = False: the value
\* just returned is rendered; a subscript of a missing key raises KeyError.
generate_lichess_style_report ==
    /\ pc = "returned"
    /\ report' = IF ReportFields \subseteq DOMAIN result
                 THEN "rendered" ELSE "KeyError"
    /\ pc' = "reported"
    /\ UNCHANGED <<game, board_turn, engine, move_num, analysis,
                   move_classifications, failed_at, result>>
    /\ UNCHANGED <<pure_vars, opening_vars, instance_vars, frame>>

Next ==
    \/ ReadGame
    \/ OpenEngine
    \/ AnalysePly
    \/ OracleFails
    \/ Finish
    \/ generate_lichess_style_report

Spec == Init /\ [][Next]_vars

(***************************************************************************)
(* ChessAnalyzer.get_opening and ChessAnalyzer.OPENING_PATTERNS            *)
(*                                                                         *)
(* A token of the move text and a key of the table are Python strings,     *)
(* held as sequences of characters.  The returned str is held with the     *)
(* branch that built it: no name of the table is "Unknown" or starts with  *)
(* "1. " or "ECO ".                                                        *)
(***************************************************************************)
MoveLimit == 6

T_e4 == <<"e", "4">>
T_d4 == <<"d", "4">>
T_c4 == <<"c", "4">>
T_e5 == <<"e", "5">>
T_c5 == <<"c", "5">>
T_e6 == <<"e", "6">>
T_c6 == <<"c", "6">>
T_d5 == <<"d", "5">>
T_g6 == <<"g", "6">>
T_a6 == <<"a", "6">>
T_Nf3 == <<"N", "f", "3">>
T_Nf6 == <<"N", "f", "6">>
T_Nc6 == <<"N", "c", "6">>
T_Bb5 == <<"B", "b", "5">>
T_Bc4 == <<"B", "c", "4">>

\* " ".join(ms)
RECURSIVE Join(_)
Join(ms) ==
    IF ms = <<>> THEN <<>>
    ELSE IF Len(ms) = 1 THEN ms[1]
    ELSE ms[1] \o <<" ">> \o Join(Tail(ms))

\* ms[:k]
Take(ms, k) == SubSeq(ms, 1, IF k < Len(ms) THEN k ELSE Len(ms))

OPENING_PATTERNS ==
    (T_e4 :> "King's Pawn")
    @@ (T_d4 :> "Queen's Pawn")
    @@ (T_Nf3 :> "Reti Opening")
    @@ (T_c4 :> "English Opening")
    @@ (Join(<<T_e4, T_e5>>) :> "King's Pawn Game")
    @@ (Join(<<T_e4, T_c5>>) :> "Sicilian Defense")
    @@ (Join(<<T_e4, T_e6>>) :> "French Defense")
    @@ (Join(<<T_e4, T_c6>>) :> "Caro-Kann Defense")
    @@ (Join(<<T_d4, T_Nf6>>) :> "Indian Defense")
    @@ (Join(<<T_d4, T_d5>>) :> "Closed Game")
    @@ (Join(<<T_e4, T_e5, T_Nf3>>) :> "King's Knight Opening")
    @@ (Join(<<T_e4, T_e5, T_Nf3, T_Nc6>>) :> "Four Knights")
    @@ (Join(<<T_e4, T_e5, T_Nf3, T_Nc6, T_Bb5>>) :> "Ruy Lopez")
    @@ (Join(<<T_e4, T_e5, T_Nf3, T_Nc6, T_Bc4>>) :> "Italian Game")
    @@ (Join(<<T_d4, T_Nf6, T_c4>>) :> "Indian Systems")
    @@ (Join(<<T_d4, T_d5, T_c4>>) :> "Queen's Gambit")
    @@ (Join(<<T_d4, T_Nf6, T_c4, T_g6>>) :> "King's Indian")
    @@ (Join(<<T_d4, T_Nf6, T_c4, T_e6>>) :> "Nimzo/Queen's Indian")

Digits == {"0", "1", "2", "3", "4", "5", "6", "7", "8", "9"}

\* line 134: the tokens kept as moves.
IsMoveToken(token) ==
    /\ token[1] \notin Digits
    /\ token[1] # "{"
    /\ token # <<"*">>

\* token.split(ch)[0]
RECURSIVE SplitHead(_, _)
SplitHead(token, ch) ==
    IF token = <<>> \/ Head(token) = ch THEN <<>>
    ELSE <<Head(token)>> \o SplitHead(Tail(token), ch)

\* line 135: check and mate symbols removed.
StripSymbols(token) == SplitHead(SplitHead(token, "+"), "#")

\* Variant: shortest prefix first.
pattern_lengths_ascending == <<1, 2, 3, 4, 5>>

\* line 141: the prefix lengths tried, in order.
pattern_lengths == <<5, 4, 3, 2, 1>>

\* lines 141-144: the first length whose prefix is a key decides.
RECURSIVE match_patterns(_, _)
match_patterns(ms, lengths) ==
    IF lengths = <<>> THEN [kind |-> "none"]
    ELSE LET test_pattern == Join(Take(ms, Head(lengths)))
         IN  IF test_pattern \in DOMAIN OPENING_PATTERNS
             THEN [kind |-> "pattern",
                   text |-> OPENING_PATTERNS[test_pattern]]
             ELSE match_patterns(ms, Tail(lengths))

\* Variant: no first-move default.
default_opening_unknown(ms) == [kind |-> "unknown", text |-> "Unknown"]

\* lines 146-149: the default when no prefix is a key.
default_opening(ms) ==
    IF ms # <<>>
    THEN [kind |-> "first_move", text |-> <<"1", ".", " ">> \o ms[1]]
    ELSE [kind |-> "unknown", text |-> "Unknown"]

\* The header part of game["pgn"]: the text may be missing or empty; the ECO
\* and the Opening tag may each be absent, hold "" or hold a value.
TagValues == {"absent", "", "value"}

PgnHeaders ==
    {[present |-> FALSE, eco |-> "absent", opening |-> "absent"]}
    \cup [present : {TRUE}, eco : TagValues, opening : TagValues]

\* The tokens the move text is made of.
Tokens ==
    {T_e4, T_e5, T_Nf3, T_Nc6, T_Bb5, T_a6,
     T_Bb5 \o <<"+">>, T_a6 \o <<"#">>,
     <<"1", ".">>, <<"1", "-", "0">>, <<"*">>, <<"{", "x">>}

InitOpening ==
    /\ pc = "call"
    /\ pgn \in PgnHeaders
    /\ moves = <<>>
    /\ tokens_read = 0
    /\ opening = NoValue
    /\ IdleAnalyzer
    /\ IdleInstances
    /\ IdlePure

\* Variant: the Opening tag looked up before the ECO tag.
CheckHeaders_opening_first ==
    /\ pc = "call"
    /\ IF ~pgn.present
       THEN /\ opening' = [kind |-> "unknown", text |-> "Unknown"]
            /\ pc' = "returned"
       ELSE IF pgn.opening \notin {"absent", ""}
       THEN /\ opening' = [kind |-> "opening_tag", text |-> pgn.opening]
            /\ pc' = "returned"
       ELSE IF pgn.eco \notin {"absent", ""}
       THEN /\ opening' = [kind |-> "eco", text |-> pgn.eco]
            /\ pc' = "returned"
       ELSE /\ pc' = "tokens"
            /\ UNCHANGED opening
    /\ moves' = <<>>
    /\ UNCHANGED <<pgn, tokens_read, analyzer_vars, pure_vars,
                 instance_vars, frame>>

\* lines 107-132: no pgn, a non-empty ECO tag or a non-empty Opening tag
\* returns at once; otherwise the move text is tokenized.
CheckHeaders ==
    /\ pc = "call"
    /\ IF ~pgn.present
       THEN /\ opening' = [kind |-> "unknown", text |-> "Unknown"]
            /\ pc' = "returned"
       ELSE IF pgn.eco \notin {"absent", ""}
       THEN /\ opening' = [kind |-> "eco", text |-> pgn.eco]
            /\ pc' = "returned"
       ELSE IF pgn.opening \notin {"absent", ""}
       THEN /\ opening' = [kind |-> "opening_tag", text |-> pgn.opening]
            /\ pc' = "returned"
       ELSE /\ pc' = "tokens"
            /\ UNCHANGED opening
    /\ moves' = <<>>
    /\ UNCHANGED <<pgn, tokens_read, analyzer_vars, pure_vars,
                 instance_vars, frame>>

\* lines 133-137: one token of moves_text.split(); the loop breaks once six
\* moves are held.
ReadToken ==
    /\ pc = "tokens"
    /\ Len(moves) < MoveLimit
    /\ tokens_read < MaxTokens
    /\ \E token \in Tokens :
          moves' = IF IsMoveToken(token)
                   THEN Append(moves, StripSymbols(token))
                   ELSE moves
    /\ tokens_read' = tokens_read + 1
    /\ UNCHANGED <<pc, pgn, opening, analyzer_vars, pure_vars,
                 instance_vars, frame>>

\* lines 139-149: the tokens are exhausted or six moves are held; match the
\* prefixes, longest first, and fall back on the first move.
MatchPatterns ==
    /\ pc = "tokens"
    /\ LET hit == match_patterns(moves, pattern_lengths)
       IN  opening' = IF hit.kind = "pattern" THEN hit
                      ELSE default_opening(moves)
    /\ pc' = "returned"
    /\ UNCHANGED <<pgn, moves, tokens_read, analyzer_vars, pure_vars,
                 instance_vars, frame>>

NextOpening == CheckHeaders \/ ReadToken \/ MatchPatterns

SpecOpening == InitOpening /\ [][NextOpening]_vars

(***************************************************************************)
(* The pure functions, each called alone on an argument drawn from a       *)
(* bounded set.                                                            *)
(***************************************************************************)
RECURSIVE SeqsUpTo(_, _)
SeqsUpTo(S, n) ==
    IF n = 0 THEN {<<>>}
    ELSE LET shorter == SeqsUpTo(S, n - 1)
         IN  shorter \cup {Append(q, x) : q \in shorter, x \in S}

InitClassify ==
    /\ pc = "call"
    /\ arg \in -MaxLoss..MaxLoss
    /\ ret = NoValue
    /\ IdleAnalyzer
    /\ IdleInstances
    /\ IdleOpening

ClassifyMove ==
    /\ pc = "call"
    /\ ret' = _classify_move(arg)
    /\ pc' = "returned"
    /\ UNCHANGED <<arg, analyzer_vars, opening_vars, instance_vars,
                 frame>>

SpecClassify == InitClassify /\ [][ClassifyMove]_vars

InitAccuracy ==
    /\ pc = "call"
    /\ arg \in SeqsUpTo(Classifications, MaxList)
    /\ ret = NoValue
    /\ IdleAnalyzer
    /\ IdleInstances
    /\ IdleOpening

CalculateAccuracy ==
    /\ pc = "call"
    /\ ret' \in _calculate_accuracy(arg)
    /\ pc' = "returned"
    /\ UNCHANGED <<arg, analyzer_vars, opening_vars, instance_vars,
                 frame>>

SpecAccuracy == InitAccuracy /\ [][CalculateAccuracy]_vars

ScoreInputs ==
    LET answering ==
            {MateScore(n) : n \in -MaxMate..MaxMate}
            \cup {CpScore(c, hs, hr) :
                      c \in -MaxCp..MaxCp, hs \in BOOLEAN, hr \in BOOLEAN}
    IN  answering \cup {Raising(sc) : sc \in answering}

InitScore ==
    /\ pc = "call"
    /\ arg \in ScoreInputs
    /\ ret = NoValue
    /\ IdleAnalyzer
    /\ IdleInstances
    /\ IdleOpening

ScoreToCp ==
    /\ pc = "call"
    /\ ret' = _score_to_cp(arg)
    /\ pc' = "returned"
    /\ UNCHANGED <<arg, analyzer_vars, opening_vars, instance_vars,
                 frame>>

SpecScore == InitScore /\ [][ScoreToCp]_vars

(***************************************************************************)
(* Properties of _classify_move, _calculate_accuracy and _score_to_cp      *)
(***************************************************************************)
\* The table of classes by |eval_loss|, as the specification states it.
TableClass(a) ==
    CASE a >= 300 -> "blunder"
      [] a \in 100..299 -> "mistake"
      [] a \in 50..99 -> "inaccuracy"
      [] a \in 26..49 -> "good"
      [] a \in 11..25 -> "excellent"
      [] a <= 10 -> "best"

BoundaryClass ==
    <<<<299, "mistake">>, <<300, "blunder">>, <<99, "inaccuracy">>,
      <<100, "mistake">>, <<49, "good">>, <<50, "inaccuracy">>,
      <<25, "excellent">>, <<26, "good">>, <<10, "best">>,
      <<11, "excellent">>>>

\* C1: for every integer eval_loss, _classify_move returns the class the
\* table gives for |eval_loss|; the ten boundary values map to mistake,
\* blunder, inaccuracy, mistake, good, inaccuracy, excellent, good, best,
\* excellent.
C1_ClassifyMatchesTable ==
    pc = "returned" =>
        /\ ret = TableClass(Abs(arg))
        /\ \A i \in DOMAIN BoundaryClass :
              Abs(arg) = BoundaryClass[i][1] => ret = BoundaryClass[i][2]

C1_Witness == pc = "returned" /\ arg = -300 /\ ret = "blunder"

\* The weights of the specification, in hundredths.
TableWeight(c) ==
    CASE c = "best" -> 100
      [] c = "excellent" -> 95
      [] c = "good" -> 90
      [] c = "inaccuracy" -> 60
      [] c = "mistake" -> 30
      [] c = "blunder" -> 0

\* C4: for a non-empty list _calculate_accuracy returns 100 times the mean
\* weight rounded to one decimal (the returned tenth is within half a tenth
\* of the mean), exactly 100.0 for an all-best list, exactly 0.0 for an
\* all-blunder list, always within [0, 100]; for the empty list it returns 0.
C4_AccuracyIsRoundedMean ==
    pc = "returned" =>
        LET n == Len(arg)
            total == SumSeq([i \in DOMAIN arg |-> TableWeight(arg[i])])
        IN  /\ n = 0 => ret = 0
            /\ n > 0 => 2 * Abs(ret * n - 10 * total) <= n
            /\ (n > 0 /\ \A i \in DOMAIN arg : arg[i] = "best") => ret = 1000
            /\ (n > 0 /\ \A i \in DOMAIN arg : arg[i] = "blunder") => ret = 0
            /\ ret >= 0 /\ ret <= 1000

C4_Witness ==
    pc = "returned" /\ arg = <<"best", "good", "mistake">> /\ ret = 733

\* C5: a mate-in-N score (N >= 1) for the side to move normalizes to
\* 10000 - 100*N and a mated-in-N score to -(10000 - 100*N); so a shorter
\* mate normalizes strictly higher than a longer one and losing mates mirror
\* winning ones.
C5_MateNormalization ==
    /\ (pc = "returned" /\ arg.is_mate /\ ~arg.raises /\ arg.mate >= 1)
           => ret = 10000 - 100 * arg.mate
    /\ (pc = "returned" /\ arg.is_mate /\ ~arg.raises /\ arg.mate <= -1)
           => ret = -(10000 - 100 * (-arg.mate))
    /\ \A n, m \in 1..MaxMate :
          /\ n < m => _score_to_cp(MateScore(n)) > _score_to_cp(MateScore(m))
          /\ _score_to_cp(MateScore(-n)) = -_score_to_cp(MateScore(n))

C5_Witness == pc = "returned" /\ arg = MateScore(-3) /\ ret = -9700

(***************************************************************************)
(* Properties of analyze_with_stockfish                                    *)
(***************************************************************************)
Returned == pc \in {"returned", "reported"}

\* C2, as stated: every record appended to the analysis list has
\* eval_loss >= 0.
C2_EvalLossNonNegative ==
    \A i \in DOMAIN analysis : analysis[i].eval_loss >= 0

\* C2, amended: eval_loss is signed.  It is >= 0 exactly when the evaluation
\* did not rise for the side the code takes as the mover (eval_after <=
\* eval_before on odd plies, eval_after >= eval_before on even plies) and
\* negative otherwise; its magnitude is |eval_before - eval_after|, and the
\* class of the record is the class of that magnitude.
C2_EvalLossSigned ==
    \A i \in DOMAIN analysis :
        LET r == analysis[i] IN
        /\ (i % 2 = 1) => (r.eval_loss >= 0 <=> r.eval_after <= r.eval_before)
        /\ (i % 2 = 0) => (r.eval_loss >= 0 <=> r.eval_after >= r.eval_before)
        /\ Abs(r.eval_loss) = Abs(r.eval_before - r.eval_after)
        /\ r.classification = TableClass(Abs(r.eval_loss))

C2_Witness ==
    /\ Len(analysis) >= 2
    /\ analysis[1].eval_loss < 0
    /\ analysis[2].eval_loss > 0

\* C3: for the ply just analysed, eval_loss = eval_before - eval_after when
\* White made the move and eval_after - eval_before when Black made it, the
\* mover being the side to move before the ply (the side not to move after
\* it), whatever side starts the game.
C3_LossRelativeToMover ==
    (pc = "loop" /\ analysis # <<>>) =>
        LET r == analysis[Len(analysis)]
            mover == Other(board_turn)
        IN  r.eval_loss = IF mover = "white"
                          THEN r.eval_before - r.eval_after
                          ELSE r.eval_after - r.eval_before

\* C6: when no engine process can be started the call returns the fixed
\* estimate (accuracy 75.0, no blunders, no mistakes, total_moves = number of
\* moves of the game) carrying the note that marks it as simplified.
C6_NoEngineGivesEstimate ==
    (Returned /\ game.valid /\ engine = "none") =>
        /\ {"accuracy", "blunders", "mistakes", "total_moves", "note"}
               \subseteq DOMAIN result
        /\ result.accuracy = 750
        /\ result.blunders = 0
        /\ result.mistakes = 0
        /\ result.total_moves = game.n_moves
        /\ result.note = SimplifiedNote

C6_Witness ==
    /\ pc = "returned"
    /\ game.valid
    /\ game.n_moves = 2
    /\ engine = "none"
    /\ result.accuracy = 750

\* C7, as stated: after an oracle failure at ply k the result keeps the
\* engine-based records of the plies before k.
C7_EarlierPliesKept ==
    (Returned /\ failed_at > 0) =>
        /\ "analysis" \in DOMAIN result
        /\ Len(result.analysis) = failed_at - 1
        /\ \A i \in 1..(failed_at - 1) : result.analysis[i] = analysis[i]

\* C7, amended: after an oracle failure at ply k the call still returns a
\* result, and it is the degraded estimate for the whole game: the records
\* computed for the plies before k are not part of it (analysis is empty,
\* accuracy 75.0, no blunders, mistakes or inaccuracies, total_moves and
\* good_moves = number of moves of the game, the simplified note set).
C7_FailureDegradesWholeGame ==
    (Returned /\ failed_at > 0) =>
        /\ {"analysis", "accuracy", "total_moves", "blunders", "mistakes",
            "inaccuracies", "good_moves", "note"} \subseteq DOMAIN result
        /\ result.analysis = <<>>
        /\ result.accuracy = 750
        /\ result.total_moves = game.n_moves
        /\ result.good_moves = game.n_moves
        /\ result.blunders = 0
        /\ result.mistakes = 0
        /\ result.inaccuracies = 0
        /\ result.note = SimplifiedNote
        /\ Len(analysis) = failed_at - 1

C7_Witness ==
    /\ pc = "returned"
    /\ failed_at = 3
    /\ Len(analysis) = 2
    /\ analysis[1].classification = "blunder"

\* C8: every value analyze_with_stockfish returns holds accuracy,
\* total_moves, blunders, mistakes and inaccuracies, so the report of the
\* caller never fails on a missing field.
C8_SameShapeOnEveryPath ==
    /\ Returned => ReportFields \subseteq DOMAIN result
    /\ report # "KeyError"

(***************************************************************************)
(* Properties of get_opening                                               *)
(***************************************************************************)
\* The pgn is there and neither tag names an opening.
NoHeader ==
    /\ pgn.present
    /\ pgn.eco \in {"absent", ""}
    /\ pgn.opening \in {"absent", ""}

\* The lengths k in 1..5 whose k first move tokens, space-joined, are a key.
MatchingLengths ==
    {k \in 1..5 :
        k <= Len(moves) /\ Join(SubSeq(moves, 1, k)) \in DOMAIN OPENING_PATTERNS}

Longest(S) == CHOOSE k \in S : \A j \in S : j <= k

\* C9: without ECO or Opening header and with at least one move, when some
\* prefix of 1..5 move tokens is a key of the table, get_opening returns the
\* name stored for the longest such prefix; e4 e5 Nf3 Nc6 Bb5 a6 is
\* "Ruy Lopez".
C9_LongestPrefixWins ==
    (pc = "returned" /\ NoHeader) =>
        /\ (moves # <<>> /\ MatchingLengths # {}) =>
               opening =
                   [kind |-> "pattern",
                    text |-> OPENING_PATTERNS[
                                 Join(SubSeq(moves, 1,
                                             Longest(MatchingLengths)))]]
        /\ moves = <<T_e4, T_e5, T_Nf3, T_Nc6, T_Bb5, T_a6>> =>
               opening.text = "Ruy Lopez"

C9_Witness ==
    /\ pc = "returned"
    /\ NoHeader
    /\ moves = <<T_e4, T_e5, T_Nf3, T_Nc6, T_Bb5, T_a6>>
    /\ opening.text = "Ruy Lopez"

\* C10: without ECO or Opening header, get_opening returns "1. <first move>"
\* exactly when there is at least one move and no prefix of length 1..5 is a
\* key, and "Unknown" exactly when there are no moves at all (or no pgn).
C10_DefaultOpening ==
    (pc = "returned" /\ (NoHeader \/ ~pgn.present)) =>
        /\ opening.kind = "first_move"
               <=> (moves # <<>> /\ MatchingLengths = {})
        /\ opening.kind = "first_move"
               => opening.text = <<"1", ".", " ">> \o moves[1]
        /\ opening.kind = "unknown" <=> moves = <<>>
        /\ opening.kind = "unknown" => opening.text = "Unknown"

C10_Witness ==
    /\ pc = "returned"
    /\ NoHeader
    /\ moves = <<T_a6, T_e4>>
    /\ opening = [kind |-> "first_move",
                  text |-> <<"1", ".", " ", "a", "6">>]

\* C11: a non-empty ECO tag gives "ECO <code>", otherwise a non-empty
\* Opening tag gives its name, whatever the moves are (no token is read);
\* the move text and the prefix table are reached only when both tags are
\* absent or empty.
C11_TagsTakePriority ==
    /\ (pc = "returned" /\ pgn.present /\ pgn.eco \notin {"absent", ""}) =>
           /\ opening = [kind |-> "eco", text |-> pgn.eco]
           /\ tokens_read = 0
    /\ (pc = "returned" /\ pgn.present /\ pgn.eco \in {"absent", ""}
            /\ pgn.opening \notin {"absent", ""}) =>
           /\ opening = [kind |-> "opening_tag", text |-> pgn.opening]
           /\ tokens_read = 0
    /\ (pc = "returned" /\ pgn.present
            /\ opening.kind \in {"pattern", "first_move", "unknown"}) =>
           NoHeader
    /\ pc = "tokens" => NoHeader

C11_Witness ==
    /\ pc = "returned"
    /\ pgn.eco = "value"
    /\ pgn.opening = "value"
    /\ opening.kind = "eco"

(***************************************************************************)
(* The board the tactical detector works on (scripts/tactical_detector).   *)
(*                                                                         *)
(* A square is 0..63 (a1 = 0, h8 = 63), file = square % 8 and rank =       *)
(* square \div 8 as in python-chess.  A board holds its pieces (a function *)
(* from the occupied squares), the side to move and the en-passant square  *)
(* (-1 for none).  None, for a piece or a square, is NoPiece or NoSquare.  *)
(* The boards drawn carry no castling rights.                              *)
(***************************************************************************)
NoSquare == -1

square(file, rank) == rank * 8 + file

square_file(sq) == sq % 8

square_rank(sq) == sq \div 8

OnBoard(file, rank) == file \in 0..7 /\ rank \in 0..7

NoPiece == [color |-> "none", piece_type |-> "none"]

Piece(c, t) == [color |-> c, piece_type |-> t]

piece_at(board, sq) ==
    IF sq \in DOMAIN board.pieces THEN board.pieces[sq] ELSE NoPiece

\* The squares reached from (file, rank) by the steps of deltas, one step
\* each.
Steps(file, rank, deltas) ==
    {square(file + d[1], rank + d[2]) :
        d \in {e \in deltas : OnBoard(file + e[1], rank + e[2])}}

KnightDeltas ==
    {<<1, 2>>, <<2, 1>>, <<2, -1>>, <<1, -2>>,
     <<-1, -2>>, <<-2, -1>>, <<-2, 1>>, <<-1, 2>>}

KingDeltas ==
    {<<1, 1>>, <<1, 0>>, <<1, -1>>, <<0, 1>>,
     <<0, -1>>, <<-1, 1>>, <<-1, 0>>, <<-1, -1>>}

DiagonalDeltas == {<<1, 1>>, <<1, -1>>, <<-1, 1>>, <<-1, -1>>}

StraightDeltas == {<<0, 1>>, <<0, -1>>, <<1, 0>>, <<-1, 0>>}

\* A sliding attack: the squares from (file, rank) along d up to and
\* including the first occupied one.
RECURSIVE Slide(_, _, _, _)
Slide(board, file, rank, d) ==
    LET nf == file + d[1]
        nr == rank + d[2]
    IN  IF ~OnBoard(nf, nr) THEN {}
        ELSE IF square(nf, nr) \in DOMAIN board.pieces THEN {square(nf, nr)}
        ELSE {square(nf, nr)} \cup Slide(board, nf, nr, d)

Slides(board, sq, deltas) ==
    UNION {Slide(board, square_file(sq), square_rank(sq), d) : d \in deltas}

\* board.attacks(sq): the squares the piece on sq attacks, own pieces'
\* squares included; empty when sq is empty.
attacks(board, sq) ==
    LET piece == piece_at(board, sq)
        f == square_file(sq)
        r == square_rank(sq)
        t == piece.piece_type
    IN  CASE t = "knight" -> Steps(f, r, KnightDeltas)
          [] t = "king" -> Steps(f, r, KingDeltas)
          [] t = "pawn" ->
                 IF piece.color = "white"
                 THEN Steps(f, r, {<<1, 1>>, <<-1, 1>>})
                 ELSE Steps(f, r, {<<1, -1>>, <<-1, -1>>})
          [] t = "bishop" -> Slides(board, sq, DiagonalDeltas)
          [] t = "rook" -> Slides(board, sq, StraightDeltas)
          [] t = "queen" ->
                 Slides(board, sq, DiagonalDeltas \cup StraightDeltas)
          [] OTHER -> {}

\* board.attackers(color, sq)
attackers(board, color, sq) ==
    {s \in DOMAIN board.pieces :
        board.pieces[s].color = color /\ sq \in attacks(board, s)}

\* board.is_attacked_by(color, sq)
is_attacked_by(board, color, sq) == attackers(board, color, sq) # {}

\* board.king(color): the square of the king, None when there is none.
king(board, color) ==
    LET ks == {s \in DOMAIN board.pieces :
                  board.pieces[s] = Piece(color, "king")}
    IN  IF ks = {} THEN NoSquare ELSE CHOOSE s \in ks : TRUE

\* A move: from_square, to_square and the promotion piece type ("none").
Move(from, to) == [from_square |-> from, to_square |-> to, promotion |-> "none"]

\* board.is_en_passant(move)
is_en_passant(board, move) ==
    /\ piece_at(board, move.from_square).piece_type = "pawn"
    /\ move.to_square = board.ep_square
    /\ square_file(move.from_square) # square_file(move.to_square)
    /\ piece_at(board, move.to_square) = NoPiece

\* board.push(move) on a copy: the piece goes to to_square (promoted when
\* the move says so), a piece standing there or the pawn taken en passant
\* leaves the board, a two-square pawn push sets the en-passant square, and
\* the turn passes.
push(board, move) ==
    LET from == move.from_square
        to == move.to_square
        piece == piece_at(board, from)
        landed == IF move.promotion = "none" THEN piece
                  ELSE Piece(piece.color, move.promotion)
        taken_ep == IF is_en_passant(board, move)
                    THEN {square(square_file(to), square_rank(from))}
                    ELSE {}
        kept == (DOMAIN board.pieces \ ({from} \cup taken_ep)) \cup {to}
        double == /\ piece.piece_type = "pawn"
                  /\ Abs(square_rank(to) - square_rank(from)) = 2
    IN  [pieces |-> [s \in kept |-> IF s = to THEN landed
                                    ELSE board.pieces[s]],
         turn |-> Other(board.turn),
         ep_square |-> IF double
                       THEN square(square_file(from),
                                   (square_rank(from) + square_rank(to)) \div 2)
                       ELSE NoSquare]

(***************************************************************************)
(* TacticalDetector: the predicates.                                       *)
(*                                                                         *)
(* A description is a Python str; a predicate that returns Optional[str]   *)
(* returns "" for None here (the caller only tests its truth, and no       *)
(* description it builds is empty).                                        *)
(***************************************************************************)
FileNames == <<"a", "b", "c", "d", "e", "f", "g", "h">>

RankNames == <<"1", "2", "3", "4", "5", "6", "7", "8">>

\* chess.square_name
square_name(sq) == FileNames[square_file(sq) + 1] \o RankNames[square_rank(sq) + 1]

\* chess.piece_name(piece_type).capitalize()
Capitalized(t) ==
    CASE t = "pawn" -> "Pawn"
      [] t = "knight" -> "Knight"
      [] t = "bishop" -> "Bishop"
      [] t = "rook" -> "Rook"
      [] t = "queen" -> "Queen"
      [] t = "king" -> "King"

\* str(move): the UCI form of the move
PromotionLetter(t) ==
    CASE t = "none" -> ""
      [] t = "knight" -> "n"
      [] t = "bishop" -> "b"
      [] t = "rook" -> "r"
      [] t = "queen" -> "q"

uci(move) ==
    square_name(move.from_square) \o square_name(move.to_square)
        \o PromotionLetter(move.promotion)

_get_piece_value(piece_type) ==
    CASE piece_type = "pawn" -> 1
      [] piece_type = "knight" -> 3
      [] piece_type = "bishop" -> 3
      [] piece_type = "rook" -> 5
      [] piece_type = "queen" -> 9
      [] piece_type = "king" -> 1000
      [] OTHER -> 0

_get_piece_directions(piece) ==
    CASE piece.piece_type = "bishop" ->
             <<<<1, 1>>, <<1, -1>>, <<-1, 1>>, <<-1, -1>>>>
      [] piece.piece_type = "rook" ->
             <<<<0, 1>>, <<0, -1>>, <<1, 0>>, <<-1, 0>>>>
      [] piece.piece_type = "queen" ->
             <<<<1, 1>>, <<1, -1>>, <<-1, 1>>, <<-1, -1>>,
               <<0, 1>>, <<0, -1>>, <<1, 0>>, <<-1, 0>>>>
      [] OTHER -> <<>>

\* The while loop of _get_ray_squares, entered with the squares collected
\* so far: every square on the board along the direction is appended, and on
\* an occupied one the loop goes on while fewer than 8 squares are held.
RECURSIVE RayLoop(_, _, _, _, _)
RayLoop(board, file, rank, direction, squares) ==
    LET nf == file + direction[1]
        nr == rank + direction[2]
        held == Append(squares, square(nf, nr))
    IN  IF OnBoard(nf, nr)
        THEN IF piece_at(board, square(nf, nr)) # NoPiece /\ ~(Len(held) < 8)
             THEN held
             ELSE RayLoop(board, nf, nr, direction, held)
        ELSE squares

_get_ray_squares(board, start, direction) ==
    RayLoop(board, square_file(start), square_rank(start), direction, <<>>)

\* The squares of a set in ascending order, the order a SquareSet iterates.
RECURSIVE Ascending(_)
Ascending(S) ==
    IF S = {} THEN <<>>
    ELSE LET least == CHOOSE x \in S : \A y \in S : x <= y
         IN  <<least>> \o Ascending(S \ {least})

\* The enemy pieces standing on the squares of an iteration, in its order.
EnemiesOn(board, squares, color) ==
    SelectSeq(squares, LAMBDA sq : /\ piece_at(board, sq) # NoPiece
                                   /\ piece_at(board, sq).color # color)

Valuable == {"queen", "rook", "bishop", "knight"}

\* The weights with the king counted like any other piece.
ForkWeight_flat(piece_type) ==
    IF piece_type \in Valuable \cup {"king"} THEN 1 ELSE 0

\* The weight _is_fork gives an attacked enemy piece.
ForkWeight(piece_type) ==
    IF piece_type \in Valuable THEN 1
    ELSE IF piece_type = "king" THEN 2
    ELSE 0

\* board is the position after the move.
_is_fork(board, move) ==
    LET piece == piece_at(board, move.to_square)
        targets == EnemiesOn(board, Ascending(attacks(board, move.to_square)),
                             piece.color)
        valuable_targets ==
            SumSeq([i \in DOMAIN targets |->
                       ForkWeight(piece_at(board, targets[i]).piece_type)])
    IN  /\ piece # NoPiece
        /\ valuable_targets >= 2

RECURSIVE JoinWith(_, _)
JoinWith(sep, strs) ==
    IF strs = <<>> THEN ""
    ELSE IF Len(strs) = 1 THEN strs[1]
    ELSE strs[1] \o sep \o JoinWith(sep, Tail(strs))

_get_forked_pieces(board, sq) ==
    LET piece == piece_at(board, sq)
        targets == EnemiesOn(board, Ascending(attacks(board, sq)), piece.color)
        forked == SelectSeq(targets,
                      LAMBDA t : piece_at(board, t).piece_type
                                     \in Valuable \cup {"king"})
    IN  IF piece = NoPiece THEN <<>>
        ELSE [i \in DOMAIN forked |->
                 Capitalized(piece_at(board, forked[i]).piece_type)
                     \o " on " \o square_name(forked[i])]

\* The for loop of _detect_pins over the directions still to try: the first
\* direction whose two nearest enemy pieces end in a king or a queen decides.
RECURSIVE PinLoop(_, _, _, _)
PinLoop(board, moved_to, piece, directions) ==
    IF directions = <<>> THEN ""
    ELSE LET ray_squares == _get_ray_squares(board, moved_to, Head(directions))
             enemies == EnemiesOn(board, ray_squares, piece.color)
             first_piece == piece_at(board, enemies[1])
             second_piece == piece_at(board, enemies[2])
             named == first_piece.piece_type \o " on "
                          \o square_name(enemies[1])
         IN  IF Len(ray_squares) >= 2 /\ Len(enemies) >= 2
                    /\ second_piece.piece_type = "king"
             THEN "Absolute pin: " \o named
             ELSE IF Len(ray_squares) >= 2 /\ Len(enemies) >= 2
                    /\ second_piece.piece_type = "queen"
             THEN "Relative pin: " \o named
             ELSE PinLoop(board, moved_to, piece, Tail(directions))

_detect_pins(board, moved_to) ==
    LET piece == piece_at(board, moved_to)
    IN  IF piece = NoPiece THEN ""
        ELSE IF piece.piece_type \notin {"bishop", "rook", "queen"} THEN ""
        ELSE PinLoop(board, moved_to, piece, _get_piece_directions(piece))

RECURSIVE SkewerLoop(_, _, _, _)
SkewerLoop(board, moved_to, piece, directions) ==
    IF directions = <<>> THEN ""
    ELSE LET ray_squares == _get_ray_squares(board, moved_to, Head(directions))
             pieces_on_ray == EnemiesOn(board, ray_squares, piece.color)
             first_type == piece_at(board, pieces_on_ray[1]).piece_type
             second_type == piece_at(board, pieces_on_ray[2]).piece_type
         IN  IF Len(ray_squares) >= 2 /\ Len(pieces_on_ray) >= 2
                    /\ _get_piece_value(first_type)
                           > _get_piece_value(second_type)
             THEN "Skewer: " \o first_type \o " to " \o second_type
             ELSE SkewerLoop(board, moved_to, piece, Tail(directions))

_detect_skewer(board, moved_to) ==
    LET piece == piece_at(board, moved_to)
    IN  IF piece = NoPiece THEN ""
        ELSE IF piece.piece_type \notin {"bishop", "rook", "queen"} THEN ""
        ELSE SkewerLoop(board, moved_to, piece, _get_piece_directions(piece))

\* board is the position before the move.
_is_discovered_attack(board, move) ==
    LET from_square == move.from_square
        piece_moving == piece_at(board, from_square)
        board_copy == push(board, move)
    IN  /\ piece_moving # NoPiece
        /\ \E sq \in DOMAIN board.pieces :
              /\ board.pieces[sq].color = piece_moving.color
              /\ sq # from_square
              /\ from_square \in attacks(board, sq)
              /\ \E new_target \in
                         attacks(board_copy, sq) \ attacks(board, sq) :
                    LET target == piece_at(board_copy, new_target)
                    IN  /\ target # NoPiece
                        /\ target.color # board.pieces[sq].color
                        /\ target.piece_type \in Valuable

\* board is the position before the move.  A move is taken for a capture
\* when a piece stands on its to_square.
_is_sacrifice(board, move) ==
    LET moving_piece == piece_at(board, move.from_square)
        captured_piece == piece_at(board, move.to_square)
        board_copy == push(board, move)
        n_attackers == Cardinality(attackers(board_copy, Other(board.turn),
                                             move.to_square))
        n_defenders == Cardinality(attackers(board_copy, board.turn,
                                             move.to_square))
    IN  IF moving_piece # NoPiece /\ captured_piece # NoPiece
        THEN _get_piece_value(moving_piece.piece_type)
                 > _get_piece_value(captured_piece.piece_type) + 1
        ELSE /\ moving_piece # NoPiece
             /\ is_attacked_by(board_copy, Other(board.turn), move.to_square)
             /\ n_attackers > n_defenders

_is_double_attack(board, sq) ==
    LET piece == piece_at(board, sq)
        counted == {t \in attacks(board, sq) :
                       LET target == piece_at(board, t)
                       IN  /\ target # NoPiece
                           /\ target.color # piece.color
                           /\ \/ ~is_attacked_by(board, target.color, t)
                              \/ target.piece_type \in {"queen", "rook"}}
    IN  /\ piece # NoPiece
        /\ Cardinality(counted) >= 2

\* The truth Python gives an Optional[Square]: None and square 0 are false.
Truthy(sq) == sq # NoSquare /\ sq # 0

\* board is the position after the move.
_is_back_rank_threat(board, move) ==
    LET piece == piece_at(board, move.to_square)
        rank == square_rank(move.to_square)
    IN  /\ piece # NoPiece
        /\ piece.piece_type \in {"rook", "queen"}
        /\ IF piece.color = "white" /\ rank >= 6
           THEN LET enemy_king_square == king(board, "black")
                IN  /\ Truthy(enemy_king_square)
                    /\ square_rank(enemy_king_square) = 7
           ELSE IF piece.color = "black" /\ rank <= 1
           THEN LET enemy_king_square == king(board, "white")
                IN  /\ Truthy(enemy_king_square)
                    /\ square_rank(enemy_king_square) = 0
           ELSE FALSE

\* board.is_check(): the king of the side to move is attacked.
is_check(board) ==
    /\ king(board, board.turn) # NoSquare
    /\ is_attacked_by(board, Other(board.turn), king(board, board.turn))

\* The squares a pawn on sq may go to: a push onto an empty square, a double
\* push from its starting rank over two empty squares, a capture of an enemy
\* piece or onto the en-passant square.
PawnTargets(board, sq) ==
    LET piece == board.pieces[sq]
        f == square_file(sq)
        r == square_rank(sq)
        up == IF piece.color = "white" THEN 1 ELSE -1
        home == IF piece.color = "white" THEN 1 ELSE 6
        free(rank) == /\ OnBoard(f, rank)
                      /\ piece_at(board, square(f, rank)) = NoPiece
        pushes == IF ~free(r + up) THEN {}
                  ELSE IF r = home /\ free(r + 2 * up)
                  THEN {square(f, r + up), square(f, r + 2 * up)}
                  ELSE {square(f, r + up)}
        takes == {t \in attacks(board, sq) :
                     \/ /\ piece_at(board, t) # NoPiece
                        /\ piece_at(board, t).color # piece.color
                     \/ /\ t = board.ep_square
                        /\ piece_at(board, t) = NoPiece}
    IN  pushes \cup takes

\* The moves of the piece on sq before the king's safety is looked at; a pawn
\* reaching the last rank promotes to any of four pieces.
PseudoLegalFrom(board, sq) ==
    LET piece == board.pieces[sq]
        targets == IF piece.piece_type = "pawn" THEN PawnTargets(board, sq)
                   ELSE {t \in attacks(board, sq) :
                            piece_at(board, t).color # piece.color}
        promotes(t) == piece.piece_type = "pawn" /\ square_rank(t) \in {0, 7}
    IN  {Move(sq, t) : t \in {u \in targets : ~promotes(u)}}
        \cup {[from_square |-> sq, to_square |-> t, promotion |-> p] :
                 t \in {u \in targets : promotes(u)}, p \in Valuable}

\* board.legal_moves: the moves of the side to move that do not leave its
\* own king attacked (no castling: the boards carry no castling rights).
legal_moves(board) ==
    LET own == {sq \in DOMAIN board.pieces :
                   board.pieces[sq].color = board.turn}
        safe(move) ==
            LET after == push(board, move)
            IN  ~is_attacked_by(after, after.turn, king(after, board.turn))
    IN  {move \in UNION {PseudoLegalFrom(board, sq) : sq \in own} : safe(move)}

\* board.is_checkmate()
is_checkmate(board) == is_check(board) /\ legal_moves(board) = {}

_move_loses_material(board, move) ==
    is_attacked_by(push(board, move), Other(board.turn), move.to_square)

\* The scan looking only at the pieces of the side to move.
_has_trapped_piece_of_side_to_move(board) ==
    \E sq \in DOMAIN board.pieces :
        /\ board.pieces[sq].piece_type # "king"
        /\ board.pieces[sq].color = board.turn
        /\ {move \in legal_moves(board) :
               /\ move.from_square = sq
               /\ ~_move_loses_material(board, move)} = {}
        /\ board.pieces[sq].piece_type \in Valuable

_has_trapped_piece(board) ==
    \E sq \in DOMAIN board.pieces :
        /\ board.pieces[sq].piece_type # "king"
        /\ {move \in legal_moves(board) :
               /\ move.from_square = sq
               /\ ~_move_loses_material(board, move)} = {}
        /\ board.pieces[sq].piece_type \in Valuable

\* A tactical event, as the dict the detector appends.
Event(type, num, color, move, description) ==
    [type |-> type,
     move_number |-> (num + 1) \div 2,
     color |-> color,
     move |-> uci(move),
     description |-> description]

\* patterns.append(e) when the condition holds
When(condition, e) == IF condition THEN <<e>> ELSE <<>>

\* board is the position before the move.
_check_pre_move_patterns(board, move, num, color) ==
    When(_is_discovered_attack(board, move),
         Event("discovered_attack", num, color, move,
               "Discovered attack"))
    \o When(_is_sacrifice(board, move),
            Event("sacrifice", num, color, move,
                  "Piece sacrifice on " \o square_name(move.to_square)))

\* board is the position after the move.
_check_post_move_patterns(board, move, num, color) ==
    LET pin_info == _detect_pins(board, move.to_square)
        skewer_info == _detect_skewer(board, move.to_square)
    IN  When(_is_fork(board, move),
             Event("fork", num, color, move,
                   "Fork attacking "
                       \o JoinWith(", ", _get_forked_pieces(board,
                                                          move.to_square))))
        \o When(pin_info # "", Event("pin", num, color, move, pin_info))
        \o When(skewer_info # "",
                Event("skewer", num, color, move, skewer_info))
        \o When(_is_back_rank_threat(board, move),
                Event("back_rank", num, color, move, "Back rank threat"))
        \o When(_is_double_attack(board, move.to_square),
                Event("double_attack", num, color, move, "Double attack"))
        \o When(_has_trapped_piece(board),
                Event("trapped_piece", num, color, move, "Piece trapped"))
        \o When(is_check(board) /\ is_checkmate(board),
                Event("checkmate", num, color, move, "Checkmate!"))
        \o When(is_check(board) /\ ~is_checkmate(board),
                Event("check", num, color, move, "Check"))

(***************************************************************************)
(* TacticalDetector.analyze_game_tactics                                   *)
(*                                                                         *)
(* The pgn argument (pgn_text) is held as what the call meets on it:      *)
(*   parsed     FALSE when read_game returns None (no game in the text);   *)
(*   board      game.board(), the starting position (a FEN header sets it);*)
(*   mainline   game.mainline_moves(), legal moves each (read_game keeps   *)
(*              the moves up to the first one it cannot read or play);     *)
(*   raises_at  the step that raises an exception: 0 for StringIO or       *)
(*              read_game itself (a pgn that is not a str), k for a step   *)
(*              of the k-th turn of the loop, NoStep when nothing raises.  *)
(***************************************************************************)
NoStep == -1


_summarize_tactics(tactics) ==
    [t \in {tactics[i].type : i \in DOMAIN tactics} |->
        Cardinality({i \in DOMAIN tactics : tactics[i].type = t})]

\* A turn of the loop with the two extends exchanged.
ply_tactics_post_first(board, move, move_number) ==
    _check_post_move_patterns(push(board, move), move, move_number,
                              board.turn)
    \o _check_pre_move_patterns(board, move, move_number,
                                board.turn)

\* One turn of the loop over the mainline: the pre-move events on the board
\* before the move, then the post-move events on the board after it.
ply_tactics(board, move, move_number) ==
    _check_pre_move_patterns(board, move, move_number, board.turn)
    \o _check_post_move_patterns(push(board, move), move, move_number,
                                 board.turn)

\* The loop over the moves still to play, entered with the count of the
\* moves played: what it extends tactics_found by.
RECURSIVE MainlineLoop(_, _, _)
MainlineLoop(board, mainline, move_number) ==
    IF mainline = <<>> THEN <<>>
    ELSE ply_tactics(board, Head(mainline), move_number + 1)
         \o MainlineLoop(push(board, Head(mainline)), Tail(mainline),
                         move_number + 1)

\* Whether the call on this pgn meets an exception inside its try block.
Raises(pgn_text) ==
    \/ pgn_text.raises_at = 0
    \/ pgn_text.parsed /\ pgn_text.raises_at \in 1..Len(pgn_text.mainline)

\* What leaves a call in which an exception was not caught.
Raised == [raised |-> TRUE]

\* The dict returned after the loop.
GameResult(game_id, tactics_found) ==
    [game_id |-> game_id,
     total_tactics |-> Len(tactics_found),
     tactics |-> tactics_found,
     tactical_summary |-> _summarize_tactics(tactics_found)]

\* The call without its except clause.
analyze_game_tactics_unguarded(pgn_text, game_id) ==
    IF Raises(pgn_text) THEN Raised
    ELSE IF ~pgn_text.parsed THEN EmptyDict
    ELSE GameResult(game_id,
                    MainlineLoop(pgn_text.board, pgn_text.mainline, 0))

analyze_game_tactics(pgn_text, game_id) ==
    IF Raises(pgn_text) THEN EmptyDict
    ELSE IF ~pgn_text.parsed THEN EmptyDict
    ELSE GameResult(game_id,
                    MainlineLoop(pgn_text.board, pgn_text.mainline, 0))

(***************************************************************************)
(* The games the detector is run on.  A game starts from a set-up          *)
(* position: two kings, the piece that moves first, and up to MaxOthers    *)
(* further pieces taken from those that matter to the move; its mainline   *)
(* is that move followed by up to MaxReplies recaptures on its destination *)
(* square.  Every position is drawn for White to move and, mirrored, for   *)
(* Black to move.                                                          *)
(***************************************************************************)
MaxOthers == 3

MaxReplies == 1

\* A piece put on a square: <<square, piece>>.
W(t, file, rank) == <<square(file, rank), Piece("white", t)>>

B(t, file, rank) == <<square(file, rank), Piece("black", t)>>

SubsetsUpTo(S, n) == {X \in SUBSET S : Cardinality(X) <= n}

\* The board holding the placed pieces; well formed when no two share a
\* square.
Distinct(placed) ==
    \A x, y \in placed : x[1] = y[1] => x = y

BoardOf(placed, turn, ep_square) ==
    [pieces |-> [sq \in {x[1] : x \in placed} |->
                    (CHOOSE x \in placed : x[1] = sq)[2]],
     turn |-> turn,
     ep_square |-> ep_square]

\* A starting position with its first move, one for each choice of the
\* alternatives and of the further pieces.
Setups(kings, movers, pool, ep_square) ==
    {[placed |-> k \cup {m[1]} \cup X, move |-> m[2], ep_square |-> ep_square] :
        k \in kings, m \in movers, X \in SubsetsUpTo(pool, MaxOthers)}

WhiteKing == W("king", 6, 0)

\* A knight comes from b5 to c7, from where it attacks a8, e8, a6, e6, b5
\* and d5.
KnightSetups ==
    Setups({{WhiteKing, B("king", 4, 7)}, {WhiteKing, B("king", 0, 7)},
            {WhiteKing, B("king", 7, 5)}},
           {<<W("knight", 1, 4), Move(square(1, 4), square(2, 6))>>},
           {B("queen", 4, 5), B("rook", 0, 5), B("knight", 3, 4),
            B("pawn", 4, 5), B("bishop", 1, 7)},
           NoSquare)

\* A bishop comes from d3 to e4; its diagonals run to h7, h1, a8 and b1.
\* The white king stands on h2, out of reach of the black pieces.
BishopSetups ==
    Setups({{W("king", 7, 1), B("king", 0, 7)},
            {W("king", 7, 1), B("king", 1, 6)},
            {W("king", 7, 1), B("king", 7, 6)}},
           {<<W("bishop", 3, 2), Move(square(3, 2), square(4, 3))>>},
           {B("bishop", 3, 4), B("bishop", 2, 5), B("knight", 5, 4),
            B("queen", 6, 5), W("pawn", 3, 4), B("pawn", 5, 4),
            W("rook", 3, 0)},
           NoSquare)

\* A rook or a queen goes up the d file from d2 to d6, d7 or d8.
HeavySetups ==
    Setups({{WhiteKing, B("king", f, 7)} : f \in (0..7) \ {3}}
               \cup {{WhiteKing, B("king", 6, 6)}},
           {<<W(t, 3, 1), Move(square(3, 1), square(3, r))>> :
               t \in {"rook", "queen"}, r \in {5, 6, 7}},
           {B("pawn", 4, 6), B("knight", 1, 7), B("rook", 7, 6),
            B("bishop", 2, 5)},
           NoSquare)

\* A piece takes on d5.
CaptureSetups ==
    Setups({{WhiteKing, B("king", 4, 7), B(t, 3, 4)} :
               t \in {"pawn", "knight", "rook", "queen"}},
           {<<W("queen", 3, 0), Move(square(3, 0), square(3, 4))>>,
            <<W("rook", 3, 0), Move(square(3, 0), square(3, 4))>>,
            <<W("bishop", 5, 2), Move(square(5, 2), square(3, 4))>>,
            <<W("knight", 2, 2), Move(square(2, 2), square(3, 4))>>,
            <<W("pawn", 4, 3), Move(square(4, 3), square(3, 4))>>},
           {B("pawn", 4, 5), B("pawn", 2, 5), W("pawn", 2, 3)},
           NoSquare)

\* The black d pawn has just come to d5 beside the white pawn on e5, which
\* takes it en passant on d6 or goes on to e6.
PawnSetups ==
    Setups({{WhiteKing, B("king", 4, 7), B("pawn", 3, 4)}},
           {<<W("pawn", 4, 4), Move(square(4, 4), square(3, 5))>>,
            <<W("pawn", 4, 4), Move(square(4, 4), square(4, 5))>>},
           {B("pawn", 2, 6), B("pawn", 5, 6), W("pawn", 2, 4),
            B("knight", 1, 4)},
           square(3, 5))

\* A pawn on e7 promotes.
PromotionSetups ==
    Setups({{WhiteKing, B("king", 0, 7)}, {WhiteKing, B("king", 7, 6)}},
           {<<W("pawn", 4, 6),
              [from_square |-> square(4, 6), to_square |-> square(4, 7),
               promotion |-> t]>> : t \in {"queen", "knight"}},
           {B("rook", 1, 7), B("knight", 6, 5)},
           NoSquare)

\* A rook goes up the a file from a2 to a5 and looks along the fifth rank,
\* where the black king may stand on d5 with pieces before and behind it.
SkewerSetups ==
    Setups({{W("king", 7, 1), B("king", 3, 4)},
            {W("king", 7, 1), B("king", 7, 7)}},
           {<<W("rook", 0, 1), Move(square(0, 1), square(0, 4))>>},
           {B("queen", 6, 4), B("knight", 5, 4), B("queen", 1, 4),
            B("pawn", 2, 4)},
           NoSquare)

WhiteSetups ==
    KnightSetups \cup BishopSetups \cup HeavySetups \cup CaptureSetups
        \cup PawnSetups \cup PromotionSetups \cup SkewerSetups

\* The same position seen from the other side: ranks turned over, colours
\* exchanged.
MirrorSquare(sq) ==
    IF sq = NoSquare THEN NoSquare
    ELSE square(square_file(sq), 7 - square_rank(sq))

MirrorMove(move) ==
    [from_square |-> MirrorSquare(move.from_square),
     to_square |-> MirrorSquare(move.to_square),
     promotion |-> move.promotion]

Mirror(setup) ==
    [placed |-> {<<MirrorSquare(x[1]),
                   Piece(Other(x[2].color), x[2].piece_type)>> :
                    x \in setup.placed},
     move |-> MirrorMove(setup.move),
     ep_square |-> MirrorSquare(setup.ep_square)]

\* The position of a setup with the given side to move, when it is one a
\* game can start from: no two pieces on a square, the side that is not to
\* move not in check, the first move legal.
StartBoard(setup, turn) == BoardOf(setup.placed, turn, setup.ep_square)

Playable(setup, turn) ==
    /\ Distinct(setup.placed)
    /\ LET board == StartBoard(setup, turn)
       IN  /\ ~is_attacked_by(board, turn, king(board, Other(turn)))
           /\ setup.move \in legal_moves(board)

\* The continuations of a game: up to k recaptures on the square to.
RECURSIVE Recaptures(_, _, _)
Recaptures(board, to, k) ==
    IF k = 0 THEN {<<>>}
    ELSE {<<>>} \cup
         UNION {{<<m>> \o rest : rest \in Recaptures(push(board, m), to, k - 1)} :
                   m \in {x \in legal_moves(board) : x.to_square = to}}

Mainlines(board, move) ==
    {<<move>> \o rest :
        rest \in Recaptures(push(board, move), move.to_square, MaxReplies)}

\* The playable positions of the setups, and of their mirror images.
StartPositions(setups) ==
    {[board |-> StartBoard(x, "white"), move |-> x.move] :
        x \in {y \in setups : Playable(y, "white")}}
    \cup {[board |-> StartBoard(Mirror(x), "black"), move |-> Mirror(x).move] :
             x \in {y \in setups : Playable(Mirror(y), "black")}}

KingsOnly == BoardOf({WhiteKing, B("king", 4, 7)}, "white", NoSquare)

\* The pgn texts of one game: one for each step at which an exception may
\* be raised while it is replayed, and one on which nothing is raised.
PgnsOf(board, line) ==
    {[parsed |-> TRUE, board |-> board, mainline |-> line, raises_at |-> at] :
        at \in {NoStep} \cup 1..Len(line)}

\* The pgn arguments: a text holding no game, a text whose moves cannot be
\* read (a game without moves), a pgn that is not a str, and the games
\* of the setups.
TacticsPgns(setups) ==
    {[parsed |-> FALSE, board |-> KingsOnly, mainline |-> <<>>,
      raises_at |-> NoStep],
     [parsed |-> TRUE, board |-> KingsOnly, mainline |-> <<>>,
      raises_at |-> NoStep],
     [parsed |-> FALSE, board |-> KingsOnly, mainline |-> <<>>,
      raises_at |-> 0]}
    \cup UNION {UNION {PgnsOf(x.board, line) :
                          line \in Mainlines(x.board, x.move)} :
                   x \in StartPositions(setups)}

InitTactics ==
    /\ pc = "call"
    /\ arg \in TacticsPgns(WhiteSetups)
    /\ ret = NoValue
    /\ IdleAnalyzer
    /\ IdleInstances
    /\ IdleOpening

AnalyzeGameTactics ==
    /\ pc = "call"
    /\ ret' = analyze_game_tactics(arg, "game")
    /\ pc' = "returned"
    /\ UNCHANGED <<arg, analyzer_vars, opening_vars, instance_vars,
                 frame>>

SpecTactics == InitTactics /\ [][AnalyzeGameTactics]_vars

(***************************************************************************)
(* TacticalDetector.analyze_multiple_games_tactics                         *)
(*                                                                         *)
(* A game of the batch is a dict that may hold "pgn" and "url".  A ratio   *)
(* rounded to two decimals is held in hundredths, one rounded to one       *)
(* decimal in tenths.                                                      *)
(***************************************************************************)
BatchLimit == 50

\* The pgn "" (what game.get("pgn", "") gives when the key is missing).
EmptyText == [text |-> ""]

\* dict.get(key, default)
Get(dict, key, default) == IF key \in DOMAIN dict THEN dict[key] ELSE default

\* round(num / den * scale): to the nearest integer, a tie going to the even
\* one (with fewer than 40 games every tie is a binary fraction, which
\* Python rounds half to even).
round_half_even(num, den, scale) ==
    LET q == (scale * num) \div den
        r == (scale * num) % den
    IN  IF 2 * r < den THEN q
        ELSE IF 2 * r > den THEN q + 1
        ELSE IF q % 2 = 0 THEN q
        ELSE q + 1

\* What a game adds to the counts: <<game_id, tactics>> when its analysis
\* holds events, nothing otherwise.
Counted(game_id, game_analysis) ==
    IF game_analysis # EmptyDict /\ game_analysis.tactics # <<>>
    THEN <<<<game_id, game_analysis.tactics>>>>
    ELSE <<>>

\* One turn of the loop, for the game at index i.
GameTurn(game_dict, i) ==
    LET pgn_text == Get(game_dict, "pgn", EmptyText)
        game_id == Get(game_dict, "url", "game_" \o ToString(i))
    IN  IF pgn_text = EmptyText THEN <<>>
        ELSE Counted(game_id, analyze_game_tactics(pgn_text, game_id))

\* The loop leaving at the first game that contributes nothing.
RECURSIVE BatchLoop_break(_, _)
BatchLoop_break(games, i) ==
    IF games = <<>> THEN <<>>
    ELSE IF GameTurn(Head(games), i) = <<>> THEN <<>>
    ELSE GameTurn(Head(games), i) \o BatchLoop_break(Tail(games), i + 1)

\* The loop over the games from index i on: the analysed games that
\* contributed events, in order.
RECURSIVE BatchLoop(_, _)
BatchLoop(games, i) ==
    IF games = <<>> THEN <<>>
    ELSE GameTurn(Head(games), i) \o BatchLoop(Tail(games), i + 1)

RECURSIVE Flatten(_)
Flatten(seqs) ==
    IF seqs = <<>> THEN <<>> ELSE Head(seqs) \o Flatten(Tail(seqs))

\* The keys of pattern_frequency in the order they were first inserted.
RECURSIVE InsertionOrder(_, _)
InsertionOrder(types, seen) ==
    IF types = <<>> THEN <<>>
    ELSE IF Head(types) \in seen THEN InsertionOrder(Tail(types), seen)
    ELSE <<Head(types)>>
             \o InsertionOrder(Tail(types), seen \cup {Head(types)})

\* sorted(items, key=count, reverse=True): a stable sort, so that items of
\* equal count keep their order.
RECURSIVE SortedByCount(_)
SortedByCount(items) ==
    IF items = <<>> THEN <<>>
    ELSE LET top == CHOOSE k \in DOMAIN items :
                        /\ \A j \in DOMAIN items : items[j][2] <= items[k][2]
                        /\ \A j \in 1..(k - 1) : items[j][2] < items[k][2]
             rest == [j \in 1..(Len(items) - 1) |->
                         IF j < top THEN items[j] ELSE items[j + 1]]
         IN  <<items[top]>> \o SortedByCount(rest)

\* The statistics computed after the loop from the games it counted.
Statistics(games, counted) ==
    LET all_tactics == Flatten([k \in DOMAIN counted |-> counted[k][2]])
        types == [k \in DOMAIN all_tactics |-> all_tactics[k].type]
        pattern_frequency ==
            [t \in {types[k] : k \in DOMAIN types} |->
                Cardinality({k \in DOMAIN types : types[k] = t})]
        games_with_patterns ==
            [t \in DOMAIN pattern_frequency |->
                {counted[k][1] : k \in {j \in DOMAIN counted :
                    \E e \in DOMAIN counted[j][2] :
                        counted[j][2][e].type = t}}]
        total_games == IF Len(games) < BatchLimit THEN Len(games)
                       ELSE BatchLimit
        order == InsertionOrder(types, {})
        items == [k \in DOMAIN order |->
                     <<order[k], pattern_frequency[order[k]]>>]
    IN  [total_tactics_found |-> Len(all_tactics),
         games_analyzed |-> total_games,
         pattern_statistics |->
             [t \in DOMAIN pattern_frequency |->
                 [total_occurrences |-> pattern_frequency[t],
                  games_with_pattern |-> Cardinality(games_with_patterns[t]),
                  frequency_per_game |->
                      round_half_even(pattern_frequency[t], total_games, 100),
                  percentage_of_games |->
                      round_half_even(Cardinality(games_with_patterns[t]),
                                      total_games, 1000)]],
         most_common_patterns |-> Take(SortedByCount(items), 5),
         tactical_richness |->
             IF total_games > 0
             THEN round_half_even(Len(all_tactics), total_games, 10)
             ELSE 0]

analyze_multiple_games_tactics(games) ==
    Statistics(games, BatchLoop(Take(games, BatchLimit), 0))

(***************************************************************************)
(* The batches the aggregator is run on: up to MaxBatch game dicts, each   *)
(* with no pgn, an empty pgn, or one of a few pgn texts.                   *)
(***************************************************************************)
MaxBatch == 3

NoGameText ==
    [parsed |-> FALSE, board |-> KingsOnly, mainline |-> <<>>,
     raises_at |-> NoStep]

\* 1. Nc7+ with the black king on e8, queen on e6, rook on a6: a fork and a
\* check among its events.
ForkGame ==
    [parsed |-> TRUE,
     board |-> BoardOf({WhiteKing, B("king", 4, 7), W("knight", 1, 4),
                        B("queen", 4, 5), B("rook", 0, 5)},
                       "white", NoSquare),
     mainline |-> <<Move(square(1, 4), square(2, 6))>>,
     raises_at |-> NoStep]

\* The same text, on which a step of the first ply raises.
CorruptGame == [ForkGame EXCEPT !.raises_at = 1]

\* 1. Be4 with the black bishop on c6 before the black king on a8: a pin
\* among its events.
PinGame ==
    [parsed |-> TRUE,
     board |-> BoardOf({W("king", 7, 1), B("king", 0, 7), W("bishop", 3, 2),
                        B("bishop", 2, 5)},
                       "white", NoSquare),
     mainline |-> <<Move(square(3, 2), square(4, 3))>>,
     raises_at |-> NoStep]

\* 1. e6 with kings and pawns only: no event.
QuietGame ==
    [parsed |-> TRUE,
     board |-> BoardOf({WhiteKing, B("king", 4, 7), W("pawn", 4, 4),
                        B("pawn", 3, 4)},
                       "white", NoSquare),
     mainline |-> <<Move(square(4, 4), square(4, 5))>>,
     raises_at |-> NoStep]

\* The game dicts: one without pgn, one with an empty pgn, and the texts
\* above, two of them under the url "game_1" (the default id of the game
\* at index 1).
GameDicts ==
    {EmptyDict,
     [pgn |-> EmptyText],
     [pgn |-> NoGameText],
     [pgn |-> CorruptGame, url |-> "game_1"],
     [pgn |-> ForkGame],
     [pgn |-> ForkGame, url |-> "game_1"],
     [pgn |-> PinGame],
     [pgn |-> QuietGame]}

Batches == SeqsUpTo(GameDicts, MaxBatch)

InitBatch ==
    /\ pc = "call"
    /\ arg \in Batches
    /\ ret = NoValue
    /\ IdleAnalyzer
    /\ IdleInstances
    /\ IdleOpening

AnalyzeMultipleGamesTactics ==
    /\ pc = "call"
    /\ ret' = analyze_multiple_games_tactics(arg)
    /\ pc' = "returned"
    /\ UNCHANGED <<arg, analyzer_vars, opening_vars, instance_vars,
                 frame>>

SpecBatch == InitBatch /\ [][AnalyzeMultipleGamesTactics]_vars

(***************************************************************************)
(* Properties of the tactical detector (SpecTactics).                      *)
(***************************************************************************)
\* The call has run to its return statement: ret holds the full dict.
Completed == pc = "returned" /\ "tactics" \in DOMAIN ret

\* The position after the first n moves of a mainline.
RECURSIVE BoardAfter(_, _, _)
BoardAfter(board, mainline, n) ==
    IF n = 0 THEN board
    ELSE BoardAfter(push(board, Head(mainline)), Tail(mainline), n - 1)

Plies == 1..Len(arg.mainline)

Before(n) == BoardAfter(arg.board, arg.mainline, n - 1)

After(n) == BoardAfter(arg.board, arg.mainline, n)

Mover(n) == Before(n).turn

\* The ply an event of the returned list belongs to: its move number and
\* its color name one ply of the game.
PlyOf(e) ==
    CHOOSE n \in Plies : e.move_number = (n + 1) \div 2 /\ e.color = Mover(n)

\* The events of the returned list that the n-th ply produced, by type.
Emitted(n, type) ==
    {i \in DOMAIN ret.tactics : /\ ret.tactics[i].type = type
                                /\ PlyOf(ret.tactics[i]) = n}

\* The call met a failure: no game in the text, no move read from it, or an
\* exception at some step.
Failing == ~arg.parsed \/ arg.mainline = <<>> \/ Raises(arg)

\* C12: analyze_game_tactics never raises; on a pgn that does not parse into
\* a game, and when any step of the replay or of a predicate fails, it
\* returns an empty result that holds no tactical event.
C12_NeverRaises ==
    pc = "returned" =>
        /\ ret # Raised
        /\ Failing => \/ ret = EmptyDict
                      \/ Completed /\ ret.tactics = <<>>

\* A step of the second ply fails after the first ply has produced events.
C12_Witness ==
    /\ pc = "returned"
    /\ arg.raises_at = 2
    /\ ply_tactics(arg.board, arg.mainline[1], 1) # <<>>
    /\ ret = EmptyDict

PreMoveTypes == {"discovered_attack", "sacrifice"}

\* C15: the returned tactics are in the order of the plies that produced
\* them: move_number and ply never decrease along the list, and within one
\* ply the pre-move events come before the post-move events.
C15_EventsInPlyOrder ==
    Completed =>
        \A i, j \in DOMAIN ret.tactics :
            i < j =>
                LET a == ret.tactics[i]
                    b == ret.tactics[j]
                IN  /\ a.move_number <= b.move_number
                    /\ PlyOf(a) <= PlyOf(b)
                    /\ PlyOf(a) = PlyOf(b) =>
                           ~(a.type \notin PreMoveTypes
                                 /\ b.type \in PreMoveTypes)

\* Two plies produced events, and the first produced both a pre-move and a
\* post-move event.
C15_Witness ==
    /\ Completed
    /\ \E i, j, k \in DOMAIN ret.tactics :
          /\ PlyOf(ret.tactics[i]) = 1
          /\ ret.tactics[i].type \in PreMoveTypes
          /\ PlyOf(ret.tactics[j]) = 1
          /\ ret.tactics[j].type \notin PreMoveTypes
          /\ PlyOf(ret.tactics[k]) = 2

\* The weighted number of enemy pieces the piece on sq attacks: a knight,
\* bishop, rook or queen counts 1, the king 2, a pawn 0.
WeightedTargets(board, sq) ==
    LET enemy(t) == /\ piece_at(board, t) # NoPiece
                    /\ piece_at(board, t).color # piece_at(board, sq).color
        ones == {t \in attacks(board, sq) :
                    /\ enemy(t)
                    /\ piece_at(board, t).piece_type
                           \in {"knight", "bishop", "rook", "queen"}}
        kings == {t \in attacks(board, sq) :
                     enemy(t) /\ piece_at(board, t).piece_type = "king"}
    IN  Cardinality(ones) + 2 * Cardinality(kings)

\* C16: a fork event is emitted for a ply if and only if, after the move,
\* the weighted number of enemy pieces attacked by the piece on the
\* destination square is at least 2.
C16_ForkIffWeightedTargets ==
    Completed =>
        \A n \in Plies :
            Emitted(n, "fork") # {}
                <=> WeightedTargets(After(n), arg.mainline[n].to_square) >= 2

\* A knight whose only target is the enemy king is flagged.
C16_Witness ==
    /\ Completed
    /\ Len(arg.mainline) = 1
    /\ piece_at(After(1), arg.mainline[1].to_square).piece_type = "knight"
    /\ Emitted(1, "fork") # {}
    /\ {piece_at(After(1), t).piece_type :
           t \in attacks(After(1), arg.mainline[1].to_square)
                    \cap DOMAIN After(1).pieces} = {"king"}

\* The occupied squares met when walking from (file, rank) along d, nearest
\* first.
RECURSIVE Walk(_, _, _, _)
Walk(board, file, rank, d) ==
    LET nf == file + d[1]
        nr == rank + d[2]
    IN  IF ~OnBoard(nf, nr) THEN <<>>
        ELSE IF piece_at(board, square(nf, nr)) # NoPiece
        THEN <<square(nf, nr)>> \o Walk(board, nf, nr, d)
        ELSE Walk(board, nf, nr, d)

PiecesMet(board, sq, d) == Walk(board, square_file(sq), square_rank(sq), d)

\* The directions a piece slides along.
SlidingDeltas(piece_type) ==
    CASE piece_type = "bishop" -> DiagonalDeltas
      [] piece_type = "rook" -> StraightDeltas
      [] piece_type = "queen" -> DiagonalDeltas \cup StraightDeltas
      [] OTHER -> {}

\* On the board, the color's enemy of the given types stands on sq.
EnemyOf(board, color, sq, types) ==
    /\ piece_at(board, sq).color = Other(color)
    /\ piece_at(board, sq).piece_type \in types

\* C17: when a bishop has moved so that along one of its diagonals the
\* first piece met is an enemy bishop and the next piece met is the enemy
\* king, a pin event is emitted for the ply, and its description marks the
\* pin as absolute and names the square of the pinned bishop.
C17_AbsolutePinReported ==
    Completed =>
        \A n \in Plies :
            LET board == After(n)
                to == arg.mainline[n].to_square
            IN  \A d \in DiagonalDeltas :
                    LET met == PiecesMet(board, to, d)
                    IN  (/\ piece_at(board, to).piece_type = "bishop"
                         /\ arg.mainline[n].promotion = "none"
                         /\ Len(met) >= 2
                         /\ EnemyOf(board, Mover(n), met[1], {"bishop"})
                         /\ EnemyOf(board, Mover(n), met[2], {"king"}))
                        => \E i \in Emitted(n, "pin") :
                               ret.tactics[i].description
                                   = "Absolute pin: bishop on "
                                         \o square_name(met[1])

\* C18: a pin or a skewer is reported for a ply only if, on some ray of the
\* moved piece, the two nearest pieces of either color are both enemy pieces
\* of the right kinds: nothing, friendly or not, stands before the nearer
\* enemy piece or between the two.
C18_BlockerPreventsDetection ==
    Completed =>
        \A n \in Plies :
            LET board == After(n)
                to == arg.mainline[n].to_square
                rays == {PiecesMet(board, to, d) :
                            d \in SlidingDeltas(piece_at(board, to).piece_type)}
                clear(met) ==
                    /\ Len(met) >= 2
                    /\ piece_at(board, met[1]).color = Other(Mover(n))
                    /\ piece_at(board, met[2]).color = Other(Mover(n))
                value(sq) == _get_piece_value(piece_at(board, sq).piece_type)
            IN  /\ Emitted(n, "pin") # {} =>
                       \E met \in rays :
                           /\ clear(met)
                           /\ piece_at(board, met[2]).piece_type
                                  \in {"king", "queen"}
                /\ Emitted(n, "skewer") # {} =>
                       \E met \in rays :
                           clear(met) /\ value(met[1]) > value(met[2])

\* C19: a back_rank event is emitted for a ply if and only if the piece on
\* the destination square after the move is a rook or a queen on the
\* opponent's last or second-to-last rank and the opponent's king stands on
\* its own back rank, whatever its file and whichever side moved.
C19_BackRankIff ==
    Completed =>
        \A n \in Plies :
            LET board == After(n)
                to == arg.mainline[n].to_square
                piece == piece_at(board, to)
                enemy_king == king(board, Other(piece.color))
            IN  Emitted(n, "back_rank") # {}
                    <=> /\ piece.piece_type \in {"rook", "queen"}
                        /\ enemy_king # NoSquare
                        /\ IF piece.color = "white"
                           THEN /\ square_rank(to) \in {6, 7}
                                /\ square_rank(enemy_king) = 7
                           ELSE /\ square_rank(to) \in {0, 1}
                                /\ square_rank(enemy_king) = 0

\* C20: a sacrifice event is emitted for a ply if and only if the move is a
\* capture by a piece worth more than the captured piece's value plus 1, or
\* the move is not a capture and, after it, more enemy than friendly pieces
\* attack the destination square.
C20_SacrificeIff ==
    Completed =>
        \A n \in Plies :
            LET board == Before(n)
                move == arg.mainline[n]
                to == move.to_square
                capture == \/ piece_at(board, to) # NoPiece
                           \/ is_en_passant(board, move)
                captured == IF is_en_passant(board, move) THEN "pawn"
                            ELSE piece_at(board, to).piece_type
                capturing == piece_at(board, move.from_square).piece_type
                enemies == attackers(After(n), Other(Mover(n)), to)
                friends == attackers(After(n), Mover(n), to)
            IN  Emitted(n, "sacrifice") # {}
                    <=> \/ /\ capture
                           /\ _get_piece_value(capturing)
                                  > _get_piece_value(captured) + 1
                        \/ /\ ~capture
                           /\ Cardinality(enemies) > Cardinality(friends)

(***************************************************************************)
(* Properties of the batch aggregator (SpecBatch).                         *)
(***************************************************************************)
\* The game dict holds a text that is analysed to its end.
WellFormed(g) ==
    /\ "pgn" \in DOMAIN g
    /\ g.pgn # EmptyText
    /\ g.pgn.parsed
    /\ ~Raises(g.pgn)

\* The game dict holds a text whose analysis fails: no game can be read from
\* it, or a step raises.
Corrupt(g) ==
    /\ "pgn" \in DOMAIN g
    /\ g.pgn # EmptyText
    /\ ~g.pgn.parsed \/ Raises(g.pgn)

\* The events of the well-formed games of a batch, game after game.
EventsOfWellFormed(games) ==
    LET good == SelectSeq(games, WellFormed)
    IN  Flatten([k \in DOMAIN good |->
                    MainlineLoop(good[k].pgn.board, good[k].pgn.mainline, 0)])

\* C13: no game aborts the batch.  For a batch of at most 50 games that
\* mixes well-formed games with missing, empty and corrupt ones, every event
\* of every well-formed game is counted in total_tactics_found and in the
\* total_occurrences of its kind in pattern_statistics, and nothing else is:
\* the counts are those of the well-formed games alone.
C13_WellFormedGamesCounted ==
    (pc = "returned" /\ Len(arg) <= BatchLimit) =>
        LET events == EventsOfWellFormed(arg)
            kinds == {events[k].type : k \in DOMAIN events}
        IN  /\ ret.total_tactics_found = Len(events)
            /\ DOMAIN ret.pattern_statistics = kinds
            /\ \A t \in kinds :
                   ret.pattern_statistics[t].total_occurrences
                       = Cardinality({k \in DOMAIN events :
                                         events[k].type = t})

\* A well-formed game with events stands after a corrupt game and before a
\* game without pgn, and its events are in the result.
C13_Witness ==
    /\ pc = "returned"
    /\ Len(arg) = 3
    /\ Corrupt(arg[1])
    /\ WellFormed(arg[2])
    /\ "pgn" \notin DOMAIN arg[3]
    /\ ret.total_tactics_found > 0

\* The keys of the result that hold aggregates over the batch.
AggregateKeys ==
    {"total_tactics_found", "games_analyzed", "pattern_statistics",
     "most_common_patterns", "tactical_richness"}

\* C14: every game of the batch whose analysis fails is reported in the
\* result as a per-item error beside the aggregates, and is not counted in
\* games_analyzed.
C14_FailingGamesReported ==
    pc = "returned" =>
        LET failing == {k \in DOMAIN arg : Corrupt(arg[k])}
        IN  /\ ret.games_analyzed <= Len(arg) - Cardinality(failing)
            /\ failing # {} => DOMAIN ret \ AggregateKeys # {}

(***************************************************************************)
(* Properties of the trapped-piece predicate (SpecTactics).                *)
(***************************************************************************)
\* The moves the piece on sq may legally make when its own side is to move.
MovesOfPiece(board, sq) ==
    LET own == [board EXCEPT !.turn = board.pieces[sq].color]
    IN  {move \in legal_moves(own) : move.from_square = sq}

\* The piece on sq is a knight, bishop, rook or queen, and every legal move
\* of it lands on a square the opposing side attacks once the move is made.
Trapped(board, sq) ==
    LET piece == board.pieces[sq]
        own == [board EXCEPT !.turn = piece.color]
    IN  /\ piece.piece_type \in Valuable
        /\ \A move \in MovesOfPiece(board, sq) :
               is_attacked_by(push(own, move), Other(piece.color),
                              move.to_square)

\* C21: a trapped_piece event is emitted for a ply if and only if, in the
\* position after the move, there is a knight, bishop, rook or queen for
\* which every legal move of that piece lands on a square attacked by the
\* opposing side.
C21_TrappedPieceIff ==
    Completed =>
        \A n \in Plies :
            Emitted(n, "trapped_piece") # {}
                <=> \E sq \in DOMAIN After(n).pieces : Trapped(After(n), sq)

(***************************************************************************)
(* Properties of the batch statistics (SpecBatch).                         *)
(***************************************************************************)
\* The events of one game of the batch: those of its replay when its text
\* is analysed to the end, none otherwise.
EventsOfGame(g) ==
    IF WellFormed(g) THEN MainlineLoop(g.pgn.board, g.pgn.mainline, 0)
    ELSE <<>>

\* The sum of the values of a function of numbers.
RECURSIVE SumOf(_)
SumOf(f) ==
    IF DOMAIN f = {} THEN 0
    ELSE LET x == CHOOSE y \in DOMAIN f : TRUE
         IN  f[x] + SumOf([y \in DOMAIN f \ {x} |-> f[y]])

\* The statistics of a result agree with the events of the games, events[k]
\* being the events of the k-th game of the batch.
StatisticsAgree(stats, events) ==
    LET OfKind(k, t) == {e \in DOMAIN events[k] : events[k][e].type = t}
        kinds == UNION {{events[k][e].type : e \in DOMAIN events[k]} :
                           k \in DOMAIN events}
        by_kind == stats.pattern_statistics
        common == stats.most_common_patterns
    IN  /\ DOMAIN by_kind = kinds
        /\ \A t \in kinds :
               /\ by_kind[t].total_occurrences
                      = SumSeq([k \in DOMAIN events |->
                                   Cardinality(OfKind(k, t))])
               /\ by_kind[t].games_with_pattern
                      = Cardinality({k \in DOMAIN events : OfKind(k, t) # {}})
               /\ by_kind[t].games_with_pattern
                      <= by_kind[t].total_occurrences
               /\ by_kind[t].percentage_of_games <= 1000
        /\ SumOf([t \in kinds |-> by_kind[t].total_occurrences])
               = stats.total_tactics_found
        /\ Len(common) <= 5
        /\ \A k \in DOMAIN common : /\ common[k][1] \in kinds
                                    /\ common[k][2]
                                           = by_kind[common[k][1]]
                                                 .total_occurrences
        /\ \A k \in 1..(Len(common) - 1) : common[k][2] >= common[k + 1][2]

\* C22: in the result of analyze_multiple_games_tactics, for every pattern
\* kind total_occurrences is the number of events of that kind over the
\* analysed games and games_with_pattern the number of analysed games of the
\* batch that hold at least one such event (so that games_with_pattern <=
\* total_occurrences and percentage_of_games <= 100); the total_occurrences
\* sum to total_tactics_found; most_common_patterns lists at most five kinds
\* in non-increasing order of total occurrences.
C22_StatisticsConsistent ==
    pc = "returned" =>
        StatisticsAgree(ret, [k \in DOMAIN arg |-> EventsOfGame(arg[k])])

(***************************************************************************)
(* One TacticalDetector used for several games.                            *)
(*                                                                         *)
(* arg is the list of pgn texts, ret the list of [index, value] records of *)
(* the calls made so far, in the order they were made; the fields of the   *)
(* instance are the variables pattern_counts and pattern_positions.        *)
(***************************************************************************)
\* The instance as __init__ leaves it: two empty defaultdicts.
NewDetector ==
    [pattern_counts |-> EmptyDict, pattern_positions |-> EmptyDict]

\* The id the games are analysed under (the default of the parameter).
DefaultGameId == ""

\* A method that keeps its tally in self.pattern_counts and summarizes from
\* it.
OnInstance_tallying(self, pgn_text, game_id) ==
    LET value == analyze_game_tactics(pgn_text, game_id)
        found == IF value = EmptyDict THEN EmptyDict
                 ELSE value.tactical_summary
        tally == [t \in DOMAIN self.pattern_counts \cup DOMAIN found |->
                     Get(self.pattern_counts, t, 0) + Get(found, t, 0)]
    IN  [self |-> [self EXCEPT !.pattern_counts = tally],
         value |-> IF value = EmptyDict THEN value
                   ELSE [value EXCEPT !.tactical_summary = tally]]

\* analyze_game_tactics as a method of the instance self: the value it
\* returns and the instance it leaves.  Its body reads and writes locals
\* only (game, board, tactics_found, move_number), and the predicates it
\* calls take the board as a parameter.
OnInstance(self, pgn_text, game_id) ==
    [self |-> self, value |-> analyze_game_tactics(pgn_text, game_id)]

\* The most games handed to one instance.
MaxGames == 2

\* The pgn texts handed to one instance.
DetectorTexts == {NoGameText, CorruptGame, ForkGame, PinGame, QuietGame}

InitDetector ==
    /\ pc = "call"
    /\ arg \in SeqsUpTo(DetectorTexts, MaxGames)
    /\ ret = <<>>
    /\ IdleAnalyzer
    /\ IdleInstances
    /\ IdleOpening

\* One call of analyze_game_tactics on the instance, for any game of the
\* list not analysed yet.
AnalyzeOnInstance ==
    /\ pc = "call"
    /\ \E k \in DOMAIN arg \ {ret[i].index : i \in DOMAIN ret} :
           LET out == OnInstance([pattern_counts |-> pattern_counts,
                                  pattern_positions |-> pattern_positions],
                                 arg[k], DefaultGameId)
           IN  /\ ret' = Append(ret, [index |-> k, value |-> out.value])
               /\ pattern_counts' = out.self.pattern_counts
               /\ pattern_positions' = out.self.pattern_positions
               /\ pc' = IF Len(ret') = Len(arg) THEN "returned" ELSE "call"
    /\ UNCHANGED <<arg, cached_analysis, frame, analyzer_vars, opening_vars>>

SpecDetector == InitDetector /\ [][AnalyzeOnInstance]_vars

\* C23: the detector carries no state from one game to the next.  Whatever
\* games were analysed before on the same instance, well-formed or failing,
\* and in whatever order the games of a batch are analysed, each call
\* returns what a new instance returns for that game.
C23_NoStateBetweenGames ==
    \A i \in DOMAIN ret :
        ret[i].value
            = OnInstance(NewDetector, arg[ret[i].index], DefaultGameId).value

\* A game with events was analysed after a failing game that stands
\* behind it in the list.
C23_Witness ==
    /\ Len(ret) = 2
    /\ ret[1].index = 2
    /\ Raises(arg[2])
    /\ ret[1].value = EmptyDict
    /\ ret[2].value # EmptyDict
    /\ ret[2].value.tactics # <<>>

(***************************************************************************)
(* analyze_game_tactics run by steps, with the working board followed      *)
(* through the predicates.                                                 *)
(*                                                                         *)
(* frame holds the locals board, tactics_found and move_number.  A         *)
(* predicate receives the working board itself (Python passes the object), *)
(* so what it does to it stays done; three of them simulate moves, on a    *)
(* copy they take first.                                                   *)
(***************************************************************************)
\* board_copy = board with no copy taken: both names are one object.
board_copy_push_shared(board, move) ==
    [board |-> push(board, move), board_copy |-> push(board, move)]

\* board_copy = board.copy(); board_copy.push(move): the two boards after
\* these statements.
board_copy_push(board, move) ==
    [board |-> board, board_copy |-> push(board, move)]

\* The working board after the moves of a set were simulated one by one.
RECURSIVE SimulateAll(_, _)
SimulateAll(board, simulated) ==
    IF simulated = {} THEN board
    ELSE LET move == CHOOSE m \in simulated : TRUE
         IN  SimulateAll(board_copy_push(board, move).board,
                         simulated \ {move})

\* _is_discovered_attack simulates the move once for every other piece of
\* the mover that attacks the square it leaves.
SimulatedByDiscoveredAttack(board, move) ==
    LET piece_moving == piece_at(board, move.from_square)
    IN  IF /\ piece_moving # NoPiece
           /\ \E sq \in DOMAIN board.pieces :
                  /\ board.pieces[sq].color = piece_moving.color
                  /\ sq # move.from_square
                  /\ move.from_square \in attacks(board, sq)
        THEN {move}
        ELSE {}

\* _is_sacrifice simulates the move unless it returns from its first test.
SimulatedBySacrifice(board, move) ==
    IF /\ piece_at(board, move.from_square) # NoPiece
       /\ piece_at(board, move.to_square) = NoPiece
    THEN {move}
    ELSE {}

\* _has_trapped_piece hands every legal move of every piece other than a
\* king to _move_loses_material, which simulates it, square after square
\* until it returns at a knight, bishop, rook or queen without a good move.
SimulatedByTrappedPiece(board) ==
    LET candidates == legal_moves(board)
        stops == {sq \in DOMAIN board.pieces :
                     /\ board.pieces[sq].piece_type \in Valuable
                     /\ \A m \in candidates :
                            m.from_square = sq
                                => _move_loses_material(board, m)}
        last == IF stops = {} THEN 63
                ELSE CHOOSE sq \in stops : \A t \in stops : sq <= t
    IN  {m \in candidates :
            /\ m.from_square <= last
            /\ board.pieces[m.from_square].piece_type # "king"}

\* The working board after _check_pre_move_patterns.
LeftByPreMove(board, move) ==
    SimulateAll(SimulateAll(board, SimulatedByDiscoveredAttack(board, move)),
                SimulatedBySacrifice(board, move))

\* The working board after _check_post_move_patterns: of its seven
\* predicates only _has_trapped_piece simulates moves.
LeftByPostMove(board) == SimulateAll(board, SimulatedByTrappedPiece(board))

\* The locals after one more turn of the loop.
ReplayTurn(locals, move) ==
    LET n == locals.move_number + 1
        color == locals.board.turn
        pre == _check_pre_move_patterns(locals.board, move, n, color)
        pushed == push(LeftByPreMove(locals.board, move), move)
        post == _check_post_move_patterns(pushed, move, n, color)
    IN  [board |-> LeftByPostMove(pushed),
         tactics_found |-> locals.tactics_found \o pre \o post,
         move_number |-> n]

InitReplay ==
    /\ pc = "call"
    /\ arg \in TacticsPgns(BishopSetups \cup PawnSetups)
    /\ ret = NoValue
    /\ IdleAnalyzer
    /\ IdleInstances
    /\ IdleOpening

\* read_game and the statements before the loop.
ReadTacticsGame ==
    /\ pc = "call"
    /\ IF arg.raises_at = 0 \/ ~arg.parsed
       THEN /\ ret' = EmptyDict
            /\ pc' = "returned"
            /\ UNCHANGED frame
       ELSE /\ frame' = [board |-> arg.board, tactics_found |-> <<>>,
                         move_number |-> 0]
            /\ pc' = "replay"
            /\ UNCHANGED ret
    /\ UNCHANGED <<arg, analyzer_vars, opening_vars, instance_vars>>

\* One turn of the loop over the mainline; an exception in it leaves
\* through the except clause.
ReplayMove ==
    /\ pc = "replay"
    /\ frame.move_number < Len(arg.mainline)
    /\ IF arg.raises_at = frame.move_number + 1
       THEN /\ ret' = EmptyDict
            /\ pc' = "returned"
            /\ UNCHANGED frame
       ELSE /\ frame' = ReplayTurn(frame,
                                   arg.mainline[frame.move_number + 1])
            /\ UNCHANGED <<pc, ret>>
    /\ UNCHANGED <<arg, analyzer_vars, opening_vars, instance_vars>>

\* The return after the loop.
ReturnTactics ==
    /\ pc = "replay"
    /\ frame.move_number = Len(arg.mainline)
    /\ ret' = GameResult("game", frame.tactics_found)
    /\ pc' = "returned"
    /\ UNCHANGED <<arg, frame, analyzer_vars, opening_vars, instance_vars>>

SpecReplay == InitReplay /\ [][ReadTacticsGame \/ ReplayMove \/ ReturnTactics]_vars

\* The call run by steps returns what the call run at once returns.
ReplayAgrees == pc = "returned" => ret = analyze_game_tactics(arg, "game")

\* C24: during the replay, after the k-th turn of the loop the working
\* board is the starting position with exactly the first k moves of the
\* mainline applied, each once and in game order; the predicates, which
\* simulate moves on copies only, leave the working board as it was.
C24_BoardFollowsMainline ==
    pc = "replay" =>
        frame.board = BoardAfter(arg.board, arg.mainline, frame.move_number)

\* Two moves were replayed, and each of the three predicates that simulate
\* moves did so on the way.
C24_Witness ==
    /\ pc = "replay"
    /\ frame.move_number = 2
    /\ SimulatedByDiscoveredAttack(Before(1), arg.mainline[1]) # {}
    /\ SimulatedBySacrifice(Before(1), arg.mainline[1]) # {}
    /\ SimulatedByTrappedPiece(After(1)) # {}
    /\ SimulatedByTrappedPiece(After(2)) # {}
    /\ frame.tactics_found # <<>>

(***************************************************************************)
(* Properties of the events of one ply (SpecTactics).                      *)
(***************************************************************************)
\* The squares of the two nearest enemy pieces on the ray the piece on
\* moved_to looks along in a direction, as both predicates collect them;
\* fewer when the ray holds fewer.
NearestTwo(board, moved_to, direction) ==
    LET ray_squares == _get_ray_squares(board, moved_to, direction)
        enemies == EnemiesOn(board, ray_squares,
                             piece_at(board, moved_to).color)
    IN  IF Len(ray_squares) >= 2 THEN Take(enemies, 2) ELSE <<>>

\* The ply n reports the pair of pieces on the two squares as a pin of the
\* nearer piece and also as a skewer through it.
ReportedAsBoth(n, nearer, farther) ==
    LET first_type == piece_at(After(n), nearer).piece_type
        second_type == piece_at(After(n), farther).piece_type
        pinned == first_type \o " on " \o square_name(nearer)
    IN  /\ \E i \in Emitted(n, "pin") :
               ret.tactics[i].description
                   \in {"Absolute pin: " \o pinned, "Relative pin: " \o pinned}
        /\ \E i \in Emitted(n, "skewer") :
               ret.tactics[i].description
                   = "Skewer: " \o first_type \o " to " \o second_type
        /\ second_type \in {"king", "queen"}
        /\ _get_piece_value(first_type) > _get_piece_value(second_type)

\* C25: for a single ray of the moved bishop, rook or queen, the pin
\* predicate and the skewer predicate are never both satisfied by the same
\* pair of enemy pieces: the pair (nearer piece, farther piece) is reported
\* as a pin of the nearer piece or as a skewer through it, never as both in
\* the same ply.
C25_PinOrSkewerNotBoth ==
    Completed =>
        \A n \in Plies :
            LET to == arg.mainline[n].to_square
                piece == piece_at(After(n), to)
                directions == _get_piece_directions(piece)
            IN  piece.piece_type \in {"bishop", "rook", "queen"} =>
                    \A k \in DOMAIN directions :
                        LET pair == NearestTwo(After(n), to, directions[k])
                        IN  Len(pair) = 2
                                => ~ReportedAsBoth(n, pair[1], pair[2])

\* C26: whenever a fork event is emitted, its description, built by
\* _get_forked_pieces, names at least two distinct attacked enemy pieces.
C26_ForkNamesTwoPieces ==
    Completed =>
        \A n \in Plies :
            \A i \in Emitted(n, "fork") :
                LET forked_pieces ==
                        _get_forked_pieces(After(n),
                                           arg.mainline[n].to_square)
                    named == {forked_pieces[k] : k \in DOMAIN forked_pieces}
                IN  /\ ret.tactics[i].description
                           = "Fork attacking " \o JoinWith(", ", forked_pieces)
                    /\ Cardinality(named) >= 2

\* The color owns a knight, bishop, rook or queen on the board.
OwnsValuable(board, color) ==
    \E sq \in DOMAIN board.pieces : /\ board.pieces[sq].color = color
                                    /\ board.pieces[sq].piece_type \in Valuable

\* C27: after every ply at which the side that has just moved still owns a
\* knight, bishop, rook or queen, a trapped_piece event is emitted for that
\* ply (the scan examines the pieces of both colors but counts only legal
\* moves of the side to move, so such a piece has no counted move).
C27_TrappedPieceAfterMoverKeepsPiece ==
    Completed =>
        \A n \in Plies :
            OwnsValuable(After(n), Mover(n))
                => Emitted(n, "trapped_piece") # {}

\* After the first ply the mover owns such a piece, the opponent owns none,
\* and the event is there.
C27_Witness ==
    /\ Completed
    /\ Len(arg.mainline) >= 1
    /\ OwnsValuable(After(1), Mover(1))
    /\ ~OwnsValuable(After(1), Other(Mover(1)))
    /\ Emitted(1, "trapped_piece") # {}
    /\ \A sq \in DOMAIN After(1).pieces : ~Trapped(After(1), sq)

(***************************************************************************)
(* Properties of the result and of the engine session (Spec).              *)
(***************************************************************************)
\* C28: in every result returned by analyze_with_stockfish that has a
\* total_moves field, engine-based or degraded, blunders + mistakes +
\* inaccuracies + good_moves = total_moves, and total_moves is the number
\* of mainline moves of the game.
C28_CountsSumToTotalMoves ==
    (pc \in {"returned", "reported"} /\ "total_moves" \in DOMAIN result) =>
        /\ result.blunders + result.mistakes + result.inaccuracies
               + result.good_moves = result.total_moves
        /\ result.total_moves = game.n_moves

\* An engine-based result of a game of MaxPlies moves that counts a move
\* under each of two counters.
C28_Witness ==
    /\ pc = "returned"
    /\ "total_moves" \in DOMAIN result
    /\ result.engine_depth = DefaultDepth
    /\ result.total_moves = MaxPlies
    /\ result.inaccuracies >= 1
    /\ result.good_moves >= 1

\* C29: on every path by which analyze_with_stockfish returns after an
\* engine process was opened, normal completion or an oracle failure at any
\* ply that leads to the degraded result, the engine session has been
\* closed before the return: no call leaves an engine process open.
C29_EngineClosedOnReturn ==
    pc \in {"returned", "reported"} => engine # "open"

(***************************************************************************)
(* OnDemandAnalyzer.analyze_game_by_request                                *)
(*                                                                         *)
(* One analyzer serves a sequence of requests.  A stored game is a dict    *)
(* that holds the white player's username and may hold "url" and "pgn"; a  *)
(* query is a username or a url, matched whole.  Of an analysis only the   *)
(* pgn it was computed from is kept.  arg is the request, ret what the     *)
(* call returned: a message, or the game and the analysis it rendered.     *)
(***************************************************************************)
\* self.games, as _load_games reads it: two games with urls of their own,
\* one without url, one with an empty url, one without pgn.
StoredGames ==
    <<[white |-> "ann", url |-> "url_1", pgn |-> "pgn_1"],
      [white |-> "bob", url |-> "url_2", pgn |-> "pgn_2"],
      [white |-> "cat", pgn |-> "pgn_3"],
      [white |-> "dan", url |-> "", pgn |-> "pgn_4"],
      [white |-> "eve", url |-> "url_5"]>>

Queries == {"ann", "bob", "cat", "dan", "eve", "url_1", "url_2", "nobody"}

\* What find_game returns when no game matches.
NoGame == [found |-> FALSE]

\* find_game: the first stored game whose player or url the query names.
find_game(query) ==
    LET matching == {k \in DOMAIN StoredGames :
                        \/ StoredGames[k].white = query
                        \/ Get(StoredGames[k], "url", "") = query}
    IN  IF matching = {} THEN NoGame
        ELSE StoredGames[CHOOSE k \in matching : \A j \in matching : k <= j]

\* analyze_with_stockfish(pgn), as far as the request handler is concerned.
AnalysisOf(pgn_text) == [computed_from |-> pgn_text]

\* game_id = game.get("url", "")
cache_key(game_dict) == Get(game_dict, "url", "")

InitRequests ==
    /\ pc = "call"
    /\ IdleAnalyzer
    /\ IdleInstances
    /\ IdlePure
    /\ IdleOpening

\* One call of analyze_game_by_request.
analyze_game_by_request ==
    /\ pc = "call"
    /\ \E query \in Queries, interactive \in BOOLEAN :
           LET game_dict == find_game(query)
               game_id == cache_key(game_dict)
               pgn_text == Get(game_dict, "pgn", "")
               shown(an) == [rendered |-> IF interactive THEN "viewer"
                                          ELSE "report",
                             game |-> game_dict,
                             analysis |-> an]
           IN  /\ arg' = [query |-> query, interactive |-> interactive]
               /\ IF game_dict = NoGame
                  THEN /\ ret' = [message |-> "Game not found"]
                       /\ UNCHANGED cached_analysis
                  ELSE IF game_id \in DOMAIN cached_analysis
                  THEN /\ ret' = shown(cached_analysis[game_id])
                       /\ UNCHANGED cached_analysis
                  ELSE IF pgn_text = ""
                  THEN /\ ret' = [message |-> "No PGN data available"]
                       /\ UNCHANGED cached_analysis
                  ELSE /\ ret' = shown(AnalysisOf(pgn_text))
                       /\ cached_analysis' =
                              [id \in DOMAIN cached_analysis \cup {game_id}
                                  |-> IF id = game_id
                                      THEN AnalysisOf(pgn_text)
                                      ELSE cached_analysis[id]]
    /\ UNCHANGED <<pc, pattern_counts, pattern_positions, frame,
                   analyzer_vars, opening_vars>>

SpecRequests == InitRequests /\ [][analyze_game_by_request]_vars

\* C30: for any sequence of analyze_game_by_request calls on one analyzer,
\* the analysis used to render the report of a found game was computed
\* from that same game's pgn: a cached entry is never served for a
\* different game, also when the url of a game is missing or empty.
C30_CachedAnalysisOfSameGame ==
    "rendered" \in DOMAIN ret =>
        ret.analysis.computed_from = Get(ret.game, "pgn", "")

====
